---- MODULE Spec2Model ----
(***************************************************************************)
(* Ola Ride Insights: the ride-booking ETL pipeline.                       *)
(*                                                                         *)
(* Two programs write the same SQLite file data/database/ola_rides.db:     *)
(*   - src/src/data_processor.py : class OlaDataProcessor and its main()   *)
(*   - src/run_project.py        : process_data() / create_summary_tables  *)
(* The model keeps the processor object's attributes, the CSV file and the *)
(* four database tables as state, and has one action per method or script. *)
(*                                                                         *)
(* A third program reads that file and never writes it:                    *)
(*   - src/src/database_manager.py : class BusinessQueries                 *)
(*                                                                         *)
(* Columns that no operation below reads (V_TAT, C_TAT, the locations,     *)
(* Year/Month/Day/Weekday/Hour) are carried through by the code unchanged  *)
(* and are left out of the rows.                                           *)
(***************************************************************************)
EXTENDS Integers, Sequences, FiniteSets, TLC

VARIABLES
    raw_data,       \* OlaDataProcessor.raw_data : None or a DataFrame
    clean_data,     \* OlaDataProcessor.clean_data (instance attribute) : None or a DataFrame
    removed_count,  \* clean_data()'s local removed_count, as last printed
    csv,            \* data/processed/ola_rides_clean.csv : None or its rows
    db,             \* data/database/ola_rides.db : the four tables and the indexes
    ret,            \* the last call: the operation, what it returned or raised,
                    \* and the error it caught and printed ("none" if none)
    run_src,        \* (history) the source the last load read
    run_df,         \* (history) the cleaned table the last pipeline run held
    db_before,      \* (history) db when the last database-writing call started
    csv_before,     \* (history) csv when the last call started
    runs,           \* number of sources read so far (bounded by MaxRuns)
    plan,           \* the order in which the query plan SQLite chose for this
                    \* file emits rows that ORDER BY leaves tied
    args,           \* the arguments of the last catalog query
    result,         \* what the last catalog query returned
    prev_query,     \* (history) the catalog query before the last one, kept
                    \* when the last one repeated it with the same arguments:
                    \* its name, its arguments and what it returned
    pc,             \* the statement a running script is at ("idle": none runs)
    cache,          \* the dashboard's st.cache_data store: query text -> result
    conns,          \* (history) the connections get_connection() opened, each
                    \* with the calls made on it, in order
    success_steps,  \* run_project.main()'s local counter
    done            \* (history) the steps main() ran, in order, with their results

vars == <<raw_data, clean_data, removed_count, csv, db, ret,
          run_src, run_df, db_before, csv_before, runs, plan, args, result,
          prev_query, pc, cache, conns, success_steps, done>>

(***************************************************************************)
(* Bounds                                                                  *)
(***************************************************************************)
MaxRows == 1        \* rows per source sheet in the pipeline specification
MaxCleanRows == 2   \* rows per input table in the cleaning specification
MaxRuns == 1        \* sources read per behaviour in the pipeline specification
MaxQueryRows == 2   \* rows of the sheet behind the database in the query specification

(***************************************************************************)
(* Cell values.  A DataFrame cell is a missing value (NaN / pd.NA / NULL), *)
(* a text, a number (float64, kept as a reduced fraction), an infinity or  *)
(* a date.                                                                 *)
(***************************************************************************)
None == [t |-> "None"]
DataFrame(rows) == [t |-> "DataFrame", rows |-> rows]
NA == [t |-> "na"]
Str(s) == [t |-> "str", s |-> s]
Inf(sign) == [t |-> "inf", sign |-> sign]
Date(day) == [t |-> "date", day |-> day]
TimeOfDay(s) == [t |-> "time", s |-> s]     \* a datetime.time object

Abs(n) == IF n < 0 THEN -n ELSE n

RECURSIVE GCD(_, _)
GCD(a, b) == IF b = 0 THEN a ELSE GCD(b, a % b)

\* the number n/d (d # 0), in lowest terms with a positive denominator
Rat(n, d) ==
    LET g == GCD(Abs(n), Abs(d))
        s == IF d < 0 THEN -1 ELSE 1
    IN  [t |-> "num", n |-> s * (n \div g), d |-> s * (d \div g)]

Num(n) == Rat(n, 1)

IsNum(c) == c.t = "num"
IsNA(c) == c.t = "na"

\* float comparisons; every comparison with NaN is False
GeZero(c) == \/ IsNum(c) /\ c.n >= 0
             \/ c.t = "inf" /\ c.sign > 0
GtZero(c) == \/ IsNum(c) /\ c.n > 0
             \/ c.t = "inf" /\ c.sign > 0
LtZero(c) == \/ IsNum(c) /\ c.n < 0
             \/ c.t = "inf" /\ c.sign < 0

\* Series / Series on float64: IEEE division, no exception on a zero divisor
FloatDiv(a, b) ==
    IF ~IsNum(a) \/ ~IsNum(b) THEN NA
    ELSE IF b.n = 0
         THEN IF a.n = 0 THEN NA ELSE Inf(IF a.n > 0 THEN 1 ELSE -1)
         ELSE Rat(a.n * b.d, a.d * b.n)

(***************************************************************************)
(* Text helpers                                                            *)
(***************************************************************************)
\* Python's  sub in s  (case-sensitive substring test)
Contains(s, sub) ==
    \E i \in 1..(Len(s) - Len(sub) + 1) : SubSeq(s, i, i + Len(sub) - 1) = sub

Digits == <<"0", "1", "2", "3", "4", "5", "6", "7", "8", "9">>
IsDigit(ch) == \E k \in 1..10 : Digits[k] = ch
DigitVal(ch) == (CHOOSE k \in 1..10 : Digits[k] = ch) - 1

RECURSIVE ParseNat(_)
ParseNat(s) ==
    IF Len(s) = 0 THEN 0
    ELSE 10 * ParseNat(SubSeq(s, 1, Len(s) - 1)) + DigitVal(SubSeq(s, Len(s), Len(s)))

AllDigits(s) == Len(s) > 0 /\ \A i \in 1..Len(s) : IsDigit(SubSeq(s, i, i))

\* pd.to_numeric(col, errors='coerce') on one cell: numbers stay, integer
\* texts are parsed, every other text and every missing value becomes NaN
to_numeric(c) ==
    IF IsNum(c) THEN c
    ELSE IF c.t = "str"
         THEN IF AllDigits(c.s) THEN Num(ParseNat(c.s))
              ELSE IF Len(c.s) > 1 /\ SubSeq(c.s, 1, 1) = "-"
                      /\ AllDigits(SubSeq(c.s, 2, Len(c.s)))
                   THEN Num(0 - ParseNat(SubSeq(c.s, 2, Len(c.s))))
                   ELSE NA
         ELSE NA

(***************************************************************************)
(* Tables: a DataFrame is a sequence of rows; idx is the row's index label *)
(***************************************************************************)
MapRows(Op(_), tbl) == [i \in 1..Len(tbl) |-> Op(tbl[i])]

Columns == {"Booking_ID", "Date", "Time", "Customer_ID", "Vehicle_Type",
            "Booking_Status", "Booking_Value", "Payment_Method", "Ride_Distance",
            "Driver_Ratings", "Customer_Rating",
            "Canceled_Rides_by_Customer", "Canceled_Rides_by_Driver"}

numeric_columns == {"Booking_Value", "Ride_Distance", "Driver_Ratings", "Customer_Rating"}

\* no replacement: the text 'null' stays in the cell
replace_null_skip(row) == row

\* df.replace('null', np.nan): every cell that is exactly the text 'null'
replace_null(row) ==
    [f \in DOMAIN row |->
        IF f \in Columns /\ row[f] = Str("null") THEN NA ELSE row[f]]

convert_types(row) ==
    [f \in DOMAIN row |->
        IF f \in numeric_columns THEN to_numeric(row[f]) ELSE row[f]]

\* pd.to_datetime(col) accepts texts and missing values; on a datetime.time
\* object it raises TypeError ("is not convertible to datetime")
to_datetime_accepts(c) == c.t # "time"

\* pd.to_datetime(Time).dt.time on one cell: a datetime.time object, or NaT
to_time(c) == IF c.t = "str" THEN TimeOfDay(c.s) ELSE NA

convert_time(row) == [row EXCEPT !.Time = to_time(@)]

Flag(b) == IF b THEN 1 ELSE 0

\* a flag set by every status that mentions the word
Is_Successful_contains(row) ==
    Flag(row.Booking_Status.t = "str" /\ Contains(row.Booking_Status.s, "Success"))

\* (Booking_Status == 'Success').astype(int)
Is_Successful(row) == Flag(row.Booking_Status = Str("Success"))

\* one flag per row: a status naming both parties counts for neither
str_contains_exclusive(row, token) ==
    Flag(/\ row.Booking_Status.t = "str"
         /\ Contains(row.Booking_Status.s, token)
         /\ ~(Contains(row.Booking_Status.s, "Customer")
                /\ Contains(row.Booking_Status.s, "Driver")))

\* Booking_Status.str.contains(token, na=False).astype(int)
str_contains(row, token) ==
    Flag(row.Booking_Status.t = "str" /\ Contains(row.Booking_Status.s, token))

\* the quotient taken on every row, without the np.where condition
Revenue_Per_KM_unguarded(row) == FloatDiv(row.Booking_Value, row.Ride_Distance)

\* np.where((Ride_Distance > 0) & (Is_Successful == 1), value / distance, nan)
Revenue_Per_KM(row) ==
    IF GtZero(row.Ride_Distance) /\ Is_Successful(row) = 1
    THEN FloatDiv(row.Booking_Value, row.Ride_Distance)
    ELSE NA

\* the features with the quotient taken on every row
feature_engineering_unguarded(row) ==
    [Is_Successful |-> Is_Successful(row),
     Is_Customer_Cancel |-> str_contains(row, "Customer"),
     Is_Driver_Cancel |-> str_contains(row, "Driver"),
     Revenue_Per_KM |-> Revenue_Per_KM_unguarded(row)] @@ row

\* column assignment: a new column is added, an existing one overwritten
feature_engineering(row) ==
    [Is_Successful |-> Is_Successful(row),
     Is_Customer_Cancel |-> str_contains(row, "Customer"),
     Is_Driver_Cancel |-> str_contains(row, "Driver"),
     Revenue_Per_KM |-> Revenue_Per_KM(row)] @@ row

\* the fills without their masks: every missing distance and payment method
fill_missing_unmasked(row) ==
    [row EXCEPT
        !.Ride_Distance = IF IsNA(@) THEN Num(0) ELSE @,
        !.Payment_Method = IF IsNA(@) THEN Str("Cash") ELSE @]

\* cancelled_mask / success_mask fills
fill_missing(row) ==
    LET cancelled == row.Booking_Status # Str("Success")
        success == row.Booking_Status = Str("Success")
    IN  [row EXCEPT
            !.Ride_Distance = IF cancelled /\ IsNA(@) THEN Num(0) ELSE @,
            !.Payment_Method = IF success /\ IsNA(@) THEN Str("Cash") ELSE @]

\* the filter without its isna() alternative
keep_value_strict(row) == GeZero(row.Booking_Value)

\* (col >= 0) | col.isna()
keep_value(row) == GeZero(row.Booking_Value) \/ IsNA(row.Booking_Value)

keep_distance(row) == GeZero(row.Ride_Distance) \/ IsNA(row.Ride_Distance)

\* the table after steps 1-4 of clean_data (no row is added or removed)
prepared(raw) ==
    MapRows(fill_missing,
        MapRows(feature_engineering,
            MapRows(convert_types,
                MapRows(convert_time,
                    MapRows(replace_null, raw)))))

\* the count taken one statement later, after the first filter
initial_count_late(tbl) == Len(SelectSeq(tbl, keep_value))

\* initial_count = len(self.clean_data), taken before the two filters
initial_count(tbl) == Len(tbl)

\* the body of OlaDataProcessor.clean_data for a loaded table; when the Time
\* conversion raises, self.clean_data is left as the copy made so far
clean_data_body(raw) ==
    LET nulled == MapRows(replace_null, raw)
        tbl == prepared(raw)
        start == initial_count(tbl)
        kept == SelectSeq(SelectSeq(tbl, keep_value), keep_distance)
    IN  IF \E i \in 1..Len(nulled) : ~to_datetime_accepts(nulled[i].Time)
        THEN [raised |-> "TypeError", table |-> nulled, removed_count |-> 0]
        ELSE [raised |-> "none", table |-> kept, removed_count |-> start - Len(kept)]

(***************************************************************************)
(* SQLite: the rides table and the three summary tables                    *)
(***************************************************************************)
Table(rows) == [t |-> "table", rows |-> rows]
Summary(groups) == [t |-> "summary", groups |-> groups]

EmptyDb == [rides |-> None, vehicle_summary |-> None, daily_summary |-> None,
            customer_summary |-> None, indexes |-> {}]

\* DataFrame.to_sql / to_csv with index=False: the index label is not written
without_index(row) == [f \in DOMAIN row \ {"idx"} |-> row[f]]

\* to_sql with if_exists='append': the rows are added to the old table
to_sql_append(df, d) ==
    [d EXCEPT !.rides = Table((IF @ = None THEN <<>> ELSE @.rows)
                              \o MapRows(without_index, df.rows))]

\* df.to_sql('rides', conn, if_exists='replace', index=False): the old table
\* (and with it every index on it) is dropped, then the rows are inserted
to_sql(df, d) ==
    [d EXCEPT !.rides = Table(MapRows(without_index, df.rows)),
              !.indexes = {}]

\* CREATE TABLE IF NOT EXISTS name AS SELECT ...: nothing happens when the
\* table is already there
create_table_if_not_exists(d, name, groups) ==
    IF d[name] = None THEN [d EXCEPT ![name] = Summary(groups)] ELSE d

\* CREATE INDEX IF NOT EXISTS ... ON rides(...)
create_index_if_not_exists(d, name) == [d EXCEPT !.indexes = @ \cup {name}]

\* --- aggregate functions ------------------------------------------------
RatAdd(a, b) == Rat(a.n * b.d + b.n * a.d, a.d * b.d)

Col(g, col) == [i \in 1..Len(g) |-> g[i][col]]

NotNull(c) == ~IsNA(c)

\* SUM(x): NULLs are skipped; NULL when every value is NULL
RECURSIVE SUM(_)
SUM(cs) ==
    IF Len(cs) = 0 THEN NA
    ELSE LET h == Head(cs)
             rest == SUM(Tail(cs))
         IN  IF IsNA(h) THEN rest ELSE IF IsNA(rest) THEN h ELSE RatAdd(h, rest)

\* AVG(x): the sum over the number of non-NULL values
AVG(cs) ==
    LET total == SUM(cs)
        n == Len(SelectSeq(cs, NotNull))
    IN  IF IsNA(total) THEN NA ELSE Rat(total.n, total.d * n)

\* ROUND(x, 2): to hundredths, halves away from zero
ROUND2(c) ==
    IF IsNA(c) THEN NA
    ELSE LET m == 100 * Abs(c.n)
             q == (2 * m + c.d) \div (2 * c.d)
         IN  Rat((IF c.n < 0 THEN -1 ELSE 1) * q, 100)

\* SUM(Is_Successful)
RECURSIVE SumInt(_)
SumInt(ns) == IF Len(ns) = 0 THEN 0 ELSE Head(ns) + SumInt(Tail(ns))

\* CASE WHEN Is_Successful = 1 THEN col ELSE 0 END
CaseElseZero(g, col) ==
    [i \in 1..Len(g) |-> IF g[i].Is_Successful = 1 THEN g[i][col] ELSE Num(0)]

\* CASE WHEN Is_Successful = 1 THEN col END
CaseElseNull(g, col) ==
    [i \in 1..Len(g) |-> IF g[i].Is_Successful = 1 THEN g[i][col] ELSE NA]

\* MAX(Date)
MaxDate(g) ==
    Date(CHOOSE m \in {g[i].Date.day : i \in 1..Len(g)} :
            \A i \in 1..Len(g) : g[i].Date.day <= m)

\* a grouping that leaves out the rows without a key
GroupKeys_not_null(rows, col) == {rows[i][col] : i \in 1..Len(rows)} \ {NA}

\* GROUP BY col
GroupKeys(rows, col) == {rows[i][col] : i \in 1..Len(rows)}
Group(rows, col, key) == SelectSeq(rows, LAMBDA r : r[col] = key)

\* --- data_processor.py: _create_summary_tables --------------------------
dp_vehicle_summary_query(rows) ==
    { LET g == Group(rows, "Vehicle_Type", k)
      IN  [Vehicle_Type |-> k,
           Total_Bookings |-> Len(g),
           Successful_Bookings |-> SumInt(Col(g, "Is_Successful")),
           Avg_Booking_Value |-> AVG(Col(g, "Booking_Value")),
           Total_Revenue |-> SUM(Col(g, "Booking_Value")),
           Avg_Distance |-> AVG(Col(g, "Ride_Distance")),
           Total_Distance |-> SUM(Col(g, "Ride_Distance")),
           Avg_Driver_Rating |-> AVG(Col(g, "Driver_Ratings")),
           Avg_Customer_Rating |-> AVG(Col(g, "Customer_Rating"))]
      : k \in GroupKeys(rows, "Vehicle_Type") }

dp_daily_summary_query(rows) ==
    { LET g == Group(rows, "Date", k)
      IN  [Date |-> k,
           Total_Bookings |-> Len(g),
           Successful_Bookings |-> SumInt(Col(g, "Is_Successful")),
           Total_Revenue |-> SUM(Col(g, "Booking_Value")),
           Avg_Booking_Value |-> AVG(Col(g, "Booking_Value")),
           Total_Distance |-> SUM(Col(g, "Ride_Distance"))]
      : k \in GroupKeys(rows, "Date") }

dp_customer_summary_query(rows) ==
    { LET g == Group(rows, "Customer_ID", k)
      IN  [Customer_ID |-> k,
           Total_Bookings |-> Len(g),
           Successful_Bookings |-> SumInt(Col(g, "Is_Successful")),
           Total_Spent |-> SUM(Col(g, "Booking_Value")),
           Avg_Rating_Given |-> AVG(Col(g, "Customer_Rating")),
           Last_Booking_Date |-> MaxDate(g)]
      : k \in GroupKeys(rows, "Customer_ID") }

\* --- run_project.py: create_summary_tables ------------------------------
rp_vehicle_summary_query(rows) ==
    { LET g == Group(rows, "Vehicle_Type", k)
      IN  [Vehicle_Type |-> k,
           Total_Bookings |-> Len(g),
           Successful_Bookings |-> SumInt(Col(g, "Is_Successful")),
           Avg_Booking_Value |-> ROUND2(AVG(Col(g, "Booking_Value"))),
           Total_Revenue |-> ROUND2(SUM(CaseElseZero(g, "Booking_Value"))),
           Avg_Distance |-> ROUND2(AVG(CaseElseNull(g, "Ride_Distance"))),
           Total_Distance |-> ROUND2(SUM(CaseElseZero(g, "Ride_Distance"))),
           Avg_Driver_Rating |-> ROUND2(AVG(CaseElseNull(g, "Driver_Ratings"))),
           Avg_Customer_Rating |-> ROUND2(AVG(CaseElseNull(g, "Customer_Rating")))]
      : k \in GroupKeys(rows, "Vehicle_Type") }

rp_daily_summary_query(rows) ==
    { LET g == Group(rows, "Date", k)
      IN  [Date |-> k,
           Total_Bookings |-> Len(g),
           Successful_Bookings |-> SumInt(Col(g, "Is_Successful")),
           Total_Revenue |-> ROUND2(SUM(CaseElseZero(g, "Booking_Value"))),
           Avg_Booking_Value |-> ROUND2(AVG(CaseElseNull(g, "Booking_Value")))]
      : k \in GroupKeys(rows, "Date") }

rp_customer_summary_query(rows) ==
    { LET g == Group(rows, "Customer_ID", k)
      IN  [Customer_ID |-> k,
           Total_Bookings |-> Len(g),
           Successful_Bookings |-> SumInt(Col(g, "Is_Successful")),
           Total_Spent |-> ROUND2(SUM(CaseElseZero(g, "Booking_Value"))),
           Avg_Rating_Given |-> ROUND2(AVG(CaseElseNull(g, "Customer_Rating")))]
      : k \in GroupKeys(rows, "Customer_ID") }

rp_indexes == <<"idx_rides_date", "idx_rides_vehicle", "idx_rides_status",
                "idx_rides_customer">>

(***************************************************************************)
(* Sources: what pd.read_excel(path, sheet_name='July') finds              *)
(***************************************************************************)
Unreadable == [t |-> "unreadable"]
Sheet(rows) == [t |-> "sheet", rows |-> rows]
File(rows) == [t |-> "file", rows |-> rows]

Row(id, day, cust, veh, status, value, pay, dist) ==
    [Booking_ID |-> Str(id), Date |-> Date(day), Time |-> Str("10:30:00"),
     Customer_ID |-> Str(cust),
     Vehicle_Type |-> Str(veh), Booking_Status |-> status, Booking_Value |-> value,
     Payment_Method |-> pay, Ride_Distance |-> dist,
     Driver_Ratings |-> IF status = Str("Success") THEN Num(4) ELSE NA,
     Customer_Rating |-> IF status = Str("Success") THEN Num(5) ELSE Str("null"),
     Canceled_Rides_by_Customer |->
        IF status.t = "str" /\ Contains(status.s, "Customer")
        THEN Str("Change of plans") ELSE Str("null"),
     Canceled_Rides_by_Driver |->
        IF status.t = "str" /\ Contains(status.s, "Driver")
        THEN Str("Personal & Car related issue") ELSE Str("null")]

\* the sheet rows of the pipeline specification
PipeRows ==
    { Row("B1", 1, "C1", "Auto", Str("Success"), Num(100), Str("UPI"), Num(10)),
      Row("B2", 2, "C2", "Mini", Str("Cancelled by Customer"), Num(-5), Str("null"), Num(10)) }

Tables(rows, n) == UNION { [1..k -> rows] : k \in 0..n }

Sources == {Unreadable} \cup { Sheet(rows) : rows \in Tables(PipeRows, MaxRows) }

\* where a database call can raise (sqlite3.Error: locked file, full disk)
FailPoints == {"none", "to_sql", "vehicle_summary", "daily_summary",
               "customer_summary", "indexes"}

\* a reader that turns an unreadable source into an empty DataFrame
read_excel_empty_on_error(src) ==
    [ok |-> TRUE,
     df |-> DataFrame(IF src.t = "sheet"
                      THEN [i \in 1..Len(src.rows) |-> [idx |-> i - 1] @@ src.rows[i]]
                      ELSE <<>>)]

\* pd.read_excel: a DataFrame with a RangeIndex, or an exception
read_excel(src) ==
    IF src.t = "sheet"
    THEN [ok |-> TRUE,
          df |-> DataFrame([i \in 1..Len(src.rows) |-> [idx |-> i - 1] @@ src.rows[i]])]
    ELSE [ok |-> FALSE, df |-> None]

(***************************************************************************)
(* data_processor.py: OlaDataProcessor                                     *)
(***************************************************************************)
init_processor == [raw_data |-> None, clean_data |-> None]

load_data(self, src) ==
    LET r == read_excel(src)
    IN  IF r.ok
        THEN [self |-> [self EXCEPT !.raw_data = r.df], ret |-> "DataFrame", err |-> "none"]
        ELSE [self |-> self, ret |-> "None", err |-> "read_excel"]

explore_data(self) == IF self.raw_data = None THEN "None" ELSE "dict"

clean_data_method(self) ==
    IF self.raw_data = None
    THEN [self |-> self, ret |-> "None", removed_count |-> 0]
    ELSE LET c == clean_data_body(self.raw_data.rows)
         IN  [self |-> [self EXCEPT !.clean_data = DataFrame(c.table)],
              ret |-> IF c.raised = "none" THEN "DataFrame" ELSE c.raised,
              removed_count |-> c.removed_count]

\* a save without the guard: with no cleaned table it writes an empty file
save_cleaned_data_unguarded(self, file) ==
    [csv |-> File(IF self.clean_data = None THEN <<>>
                  ELSE MapRows(without_index, self.clean_data.rows)),
     ret |-> "True"]

save_cleaned_data(self, file) ==
    IF self.clean_data = None
    THEN [csv |-> file, ret |-> "False"]
    ELSE [csv |-> File(MapRows(without_index, self.clean_data.rows)), ret |-> "True"]

\* _create_summary_tables(conn): three statements, each committed on its own
dp_create_summary_tables(d, fail) ==
    LET d1 == create_table_if_not_exists(d, "vehicle_summary",
                                         dp_vehicle_summary_query(d.rides.rows))
        d2 == create_table_if_not_exists(d1, "daily_summary",
                                         dp_daily_summary_query(d.rides.rows))
        d3 == create_table_if_not_exists(d2, "customer_summary",
                                         dp_customer_summary_query(d.rides.rows))
    IN  IF fail = "vehicle_summary" THEN [db |-> d, ok |-> FALSE]
        ELSE IF fail = "daily_summary" THEN [db |-> d1, ok |-> FALSE]
        ELSE IF fail = "customer_summary" THEN [db |-> d2, ok |-> FALSE]
        ELSE [db |-> d3, ok |-> TRUE]

\* create_database(): to_sql commits on its own, then the summary statements
create_database(self, d, fail) ==
    IF self.clean_data = None THEN [db |-> d, ret |-> "False", err |-> "none"]
    ELSE IF fail = "to_sql" THEN [db |-> d, ret |-> "False", err |-> fail]
    ELSE LET s == dp_create_summary_tables(to_sql(self.clean_data, d), fail)
         IN  [db |-> s.db, ret |-> IF s.ok THEN "True" ELSE "False",
              err |-> IF s.ok THEN "none" ELSE fail]

\* processor.clean_data(): attribute lookup finds the instance attribute that
\* __init__ set (None, later a DataFrame) before the method of the class
IsBoundMethod(v) == v.t = "method"

\* main(): the five steps on a fresh processor
main(src, file, d) ==
    LET p1 == load_data(init_processor, src).self
        explored == explore_data(p1)
    IN  IF ~IsBoundMethod(p1.clean_data)
        THEN [csv |-> file, db |-> d, ret |-> "TypeError"]
        ELSE LET p2 == clean_data_method(p1).self
             IN  [csv |-> save_cleaned_data(p2, file).csv,
                  db |-> create_database(p2, d, "none").db,
                  ret |-> "Completed"]

(***************************************************************************)
(* run_project.py: process_data / create_summary_tables                    *)
(***************************************************************************)
rp_feature_engineering(row) ==
    [Is_Successful |-> Is_Successful(row),
     Revenue_Per_KM |-> FloatDiv(row.Booking_Value, row.Ride_Distance)] @@ row

\* the DataFrame process_data saves and loads into the database
rp_preprocess(rows) ==
    MapRows(rp_feature_engineering,
        MapRows(convert_types,
            MapRows(replace_null, rows)))

RECURSIVE create_indexes(_, _)
create_indexes(d, names) ==
    IF Len(names) = 0 THEN d
    ELSE create_indexes(create_index_if_not_exists(d, Head(names)), Tail(names))

rp_create_summary_tables(d, fail) ==
    LET d1 == create_table_if_not_exists(d, "vehicle_summary",
                                         rp_vehicle_summary_query(d.rides.rows))
        d2 == create_table_if_not_exists(d1, "daily_summary",
                                         rp_daily_summary_query(d.rides.rows))
        d3 == create_table_if_not_exists(d2, "customer_summary",
                                         rp_customer_summary_query(d.rides.rows))
    IN  IF fail = "vehicle_summary" THEN [db |-> d, ok |-> FALSE]
        ELSE IF fail = "daily_summary" THEN [db |-> d1, ok |-> FALSE]
        ELSE IF fail = "customer_summary" THEN [db |-> d2, ok |-> FALSE]
        ELSE IF fail = "indexes" THEN [db |-> d3, ok |-> FALSE]
        ELSE [db |-> create_indexes(d3, rp_indexes), ok |-> TRUE]

process_data(src, file, d, fail) ==
    LET r == read_excel(src)
    IN  IF ~r.ok
        THEN [csv |-> file, db |-> d, ret |-> "False", err |-> "read_excel", df |-> None]
        ELSE LET df == DataFrame(rp_preprocess(r.df.rows))
                 saved == File(MapRows(without_index, df.rows))
             IN  IF fail = "to_sql"
                 THEN [csv |-> saved, db |-> d, ret |-> "False", err |-> fail, df |-> df]
                 ELSE LET s == rp_create_summary_tables(to_sql(df, d), fail)
                      IN  [csv |-> saved, db |-> s.db,
                           ret |-> IF s.ok THEN "True" ELSE "False",
                           err |-> IF s.ok THEN "none" ELSE fail, df |-> df]

(***************************************************************************)
(* database_manager.py: how SQLite compares and orders values              *)
(***************************************************************************)
\* the characters of the model's texts, in byte order (BINARY collation)
Alphabet == " &0123456789:ABCDEFGHIJKLMNOPQRSTUVWXYZabcdefghijklmnopqrstuvwxyz"
UpperCase == "ABCDEFGHIJKLMNOPQRSTUVWXYZ"
LowerCase == "abcdefghijklmnopqrstuvwxyz"

Chars == {SubSeq(Alphabet, k, k) : k \in 1..Len(Alphabet)}

CharRank == [ch \in Chars |-> CHOOSE k \in 1..Len(Alphabet) : SubSeq(Alphabet, k, k) = ch]

RECURSIVE TextLess(_, _)
TextLess(a, b) ==
    IF Len(b) = 0 THEN FALSE
    ELSE IF Len(a) = 0 THEN TRUE
    ELSE LET x == CharRank[SubSeq(a, 1, 1)]
             y == CharRank[SubSeq(b, 1, 1)]
         IN  IF x # y THEN x < y
             ELSE TextLess(SubSeq(a, 2, Len(a)), SubSeq(b, 2, Len(b)))

\* storage classes: NULL sorts before numbers, numbers before texts
TypeRank(c) == IF IsNA(c) THEN 0 ELSE IF c.t \in {"num", "inf"} THEN 1 ELSE 2

CellLess(a, b) ==
    IF TypeRank(a) # TypeRank(b) THEN TypeRank(a) < TypeRank(b)
    ELSE IF IsNum(a) /\ IsNum(b) THEN a.n * b.d < b.n * a.d
    ELSE IF a.t = "date" /\ b.t = "date" THEN a.day < b.day
    ELSE IF a.t = "str" /\ b.t = "str" THEN TextLess(a.s, b.s)
    ELSE FALSE

\* LIKE folds the case of ASCII letters
lower ==
    [ch \in Chars |->
        IF \E k \in 1..Len(UpperCase) : SubSeq(UpperCase, k, k) = ch
        THEN LET k == CHOOSE k \in 1..Len(UpperCase) : SubSeq(UpperCase, k, k) = ch
             IN  SubSeq(LowerCase, k, k)
        ELSE ch]

\* col LIKE '%token%'; NULL LIKE ... is NULL, which no WHEN or WHERE accepts
Like(c, token) ==
    /\ c.t = "str"
    /\ \E i \in 1..(Len(c.s) - Len(token) + 1) :
          \A j \in 1..Len(token) :
              lower[SubSeq(c.s, i + j - 1, i + j - 1)] = lower[SubSeq(token, j, j)]

\* the order in which a plan emits rows that ORDER BY leaves tied: SQL leaves
\* it open; SQLite walks the groups by ascending or by descending key,
\* depending on the plan it chose for the file
Plans == {"ascending", "descending"}

SortSet(S, Before(_, _)) ==
    IF S = {} THEN <<>>
    ELSE CHOOSE seq \in [1..Cardinality(S) -> S] :
            \A i, j \in 1..Cardinality(S) : i < j => Before(seq[i], seq[j])

\* ORDER BY sort [DESC] over items [sort, tie, row]: the rows in that order
OrderBy(items, desc, p) ==
    LET Before(a, b) ==
            IF CellLess(a.sort, b.sort) THEN ~desc
            ELSE IF CellLess(b.sort, a.sort) THEN desc
            ELSE IF p = "ascending" THEN CellLess(a.tie, b.tie)
                 ELSE CellLess(b.tie, a.tie)
        sorted == SortSet(items, Before)
    IN  [i \in 1..Len(sorted) |-> sorted[i].row]

\* LIMIT n: a negative n means no limit
Limit(rows, n) ==
    IF n < 0 \/ n >= Len(rows) THEN rows ELSE SubSeq(rows, 1, n)

\* --- the expressions the catalog queries share --------------------------
IsSuccess(r) == r.Booking_Status = Str("Success")

\* SUM(CASE WHEN Booking_Status = 'Success' THEN 1 ELSE 0 END)
CountSuccess(g) == Len(SelectSeq(g, IsSuccess))

\* CASE WHEN Booking_Status = 'Success' THEN col ELSE 0 END
CaseSuccessElseZero(g, col) ==
    [i \in 1..Len(g) |-> IF IsSuccess(g[i]) THEN g[i][col] ELSE Num(0)]

\* CASE WHEN Booking_Status = 'Success' THEN col END
CaseSuccessElseNull(g, col) ==
    [i \in 1..Len(g) |-> IF IsSuccess(g[i]) THEN g[i][col] ELSE NA]

\* ROUND(n * 100.0 / total, 2)
Percent(n, total) == ROUND2(Rat(100 * n, total))

(***************************************************************************)
(* database_manager.py: BusinessQueries                                    *)
(***************************************************************************)
SuccessfulBookingsColumns ==
    {"Booking_ID", "Date", "Customer_ID", "Vehicle_Type", "Booking_Value",
     "Payment_Method", "Ride_Distance", "Driver_Ratings", "Customer_Rating"}

successful_bookings_query(rows, p) ==
    OrderBy({ [sort |-> rows[i].Date, tie |-> Num(i),
               row |-> [f \in SuccessfulBookingsColumns |-> rows[i][f]]]
              : i \in {j \in 1..Len(rows) : IsSuccess(rows[j])} },
            TRUE, p)

vehicle_performance_query(rows, p) ==
    LET groups ==
            { LET g == Group(rows, "Vehicle_Type", k)
              IN  [Vehicle_Type |-> k,
                   Total_Bookings |-> Len(g),
                   Successful_Bookings |-> CountSuccess(g),
                   Success_Rate |-> Percent(CountSuccess(g), Len(g)),
                   Total_Revenue |-> ROUND2(SUM(CaseSuccessElseZero(g, "Booking_Value"))),
                   Avg_Booking_Value |-> ROUND2(AVG(CaseSuccessElseNull(g, "Booking_Value"))),
                   Avg_Distance |-> ROUND2(AVG(CaseSuccessElseNull(g, "Ride_Distance"))),
                   Avg_Driver_Rating |-> ROUND2(AVG(CaseSuccessElseNull(g, "Driver_Ratings"))),
                   Avg_Customer_Rating |-> ROUND2(AVG(CaseSuccessElseNull(g, "Customer_Rating")))]
              : k \in GroupKeys(rows, "Vehicle_Type") }
    IN  OrderBy({ [sort |-> r.Total_Revenue, tie |-> r.Vehicle_Type, row |-> r]
                  : r \in groups }, TRUE, p)

top_customers_query(rows, p, limit) ==
    LET groups ==
            { LET g == Group(rows, "Customer_ID", k)
              IN  [Customer_ID |-> k,
                   Total_Bookings |-> Len(g),
                   Successful_Bookings |-> CountSuccess(g),
                   Total_Spent |-> ROUND2(SUM(CaseSuccessElseZero(g, "Booking_Value"))),
                   Avg_Booking_Value |-> ROUND2(AVG(CaseSuccessElseNull(g, "Booking_Value"))),
                   Success_Rate |-> Percent(CountSuccess(g), Len(g))]
              : k \in GroupKeys(rows, "Customer_ID") }
        having == { r \in groups : GtZero(r.Total_Spent) }
    IN  Limit(OrderBy({ [sort |-> r.Total_Spent, tie |-> r.Customer_ID, row |-> r]
                        : r \in having }, TRUE, p),
              limit)

Status_Category(r) ==
    IF IsSuccess(r) THEN "Successful"
    ELSE IF Like(r.Booking_Status, "Customer") THEN "Cancelled by Customer"
    ELSE IF Like(r.Booking_Status, "Driver") THEN "Cancelled by Driver"
    ELSE "Other"

overall_query(rows, p) ==
    LET groups ==
            { LET n == Len(SelectSeq(rows, LAMBDA r : Status_Category(r) = c))
              IN  [Status_Category |-> c, Count |-> n, Percentage |-> Percent(n, Len(rows))]
              : c \in {Status_Category(rows[i]) : i \in 1..Len(rows)} }
    IN  OrderBy({ [sort |-> Num(r.Count), tie |-> Str(r.Status_Category), row |-> r]
                  : r \in groups }, TRUE, p)

\* customer_query / driver_query: the reasons of the rows whose status is
\* LIKE '%token%', grouped by the reason column
reasons_query(rows, token, col, p) ==
    LET sel == SelectSeq(rows, LAMBDA r : Like(r.Booking_Status, token))
    IN  OrderBy({ LET n == Len(Group(sel, col, k))
                  IN  [sort |-> Num(n), tie |-> k,
                       row |-> [Reason |-> IF IsNA(k) THEN Str("Not Specified") ELSE k,
                                Count |-> n]]
                  : k \in GroupKeys(sel, col) }, TRUE, p)

payment_query(rows, p) ==
    LET paid == SelectSeq(rows, LAMBDA r : NotNull(r.Payment_Method))
        sel == SelectSeq(paid, IsSuccess)
        groups ==
            { LET g == Group(sel, "Payment_Method", k)
              IN  [Payment_Method |-> k,
                   Total_Transactions |-> Len(g),
                   Total_Revenue |-> ROUND2(SUM(Col(g, "Booking_Value"))),
                   Avg_Transaction_Value |-> ROUND2(AVG(Col(g, "Booking_Value"))),
                   Usage_Percentage |-> Percent(Len(g), Len(paid))]
              : k \in GroupKeys(sel, "Payment_Method") }
    IN  OrderBy({ [sort |-> r.Total_Revenue, tie |-> r.Payment_Method, row |-> r]
                  : r \in groups }, TRUE, p)

daily_query(rows, p) ==
    LET groups ==
            { LET g == Group(rows, "Date", k)
              IN  [Date |-> k,
                   Total_Bookings |-> Len(g),
                   Successful_Bookings |-> CountSuccess(g),
                   Daily_Revenue |-> ROUND2(SUM(CaseSuccessElseZero(g, "Booking_Value")))]
              : k \in GroupKeys(rows, "Date") }
    IN  OrderBy({ [sort |-> r.Date, tie |-> r.Date, row |-> r] : r \in groups }, FALSE, p)

\* what a SELECT ... FROM rides reads (no row when the table is missing)
rides_rows(d) == IF d.rides = None THEN <<>> ELSE d.rides.rows

\* a reader that deletes what it has read
execute_query_consuming(d, rows) ==
    [db |-> [d EXCEPT !.rides = IF @ = None THEN @ ELSE Table(<<>>)],
     df |-> DataFrame(rows),
     err |-> IF d.rides = None THEN "no such table" ELSE "none"]

\* DatabaseManager.execute_query_to_dataframe: pd.read_sql_query on a fresh
\* connection; any exception is logged and an empty DataFrame returned
execute_query_to_dataframe(d, rows) ==
    [db |-> d,
     df |-> DataFrame(rows),
     err |-> IF d.rides = None THEN "no such table" ELSE "none"]

get_successful_bookings(d, p) ==
    execute_query_to_dataframe(d, successful_bookings_query(rides_rows(d), p))

get_vehicle_performance(d, p) ==
    execute_query_to_dataframe(d, vehicle_performance_query(rides_rows(d), p))

get_top_customers(d, p, limit) ==
    execute_query_to_dataframe(d, top_customers_query(rides_rows(d), p, limit))

get_cancellation_analysis(d, p) ==
    LET overall == execute_query_to_dataframe(d, overall_query(rides_rows(d), p))
        customer == execute_query_to_dataframe(overall.db,
                        reasons_query(rides_rows(overall.db), "Customer",
                                      "Canceled_Rides_by_Customer", p))
        driver == execute_query_to_dataframe(customer.db,
                        reasons_query(rides_rows(customer.db), "Driver",
                                      "Canceled_Rides_by_Driver", p))
    IN  [db |-> driver.db,
         df |-> [overall |-> overall.df, customer_reasons |-> customer.df,
                 driver_reasons |-> driver.df],
         err |-> overall.err]

get_revenue_analysis(d, p) ==
    LET payment == execute_query_to_dataframe(d, payment_query(rides_rows(d), p))
        daily == execute_query_to_dataframe(payment.db, daily_query(rides_rows(payment.db), p))
    IN  [db |-> daily.db,
         df |-> [payment_methods |-> payment.df, daily_trends |-> daily.df],
         err |-> payment.err]

(***************************************************************************)
(* The pipeline specification: calls on one processor object, runs of      *)
(* data_processor.main() and runs of run_project.process_data(), one at a  *)
(* time (the pipeline is single-threaded and the only writer).             *)
(***************************************************************************)
self == [raw_data |-> raw_data, clean_data |-> clean_data]

Call(op, val) == [op |-> op, val |-> val, err |-> "none"]
Caught(op, val, err) == [op |-> op, val |-> val, err |-> err]

\* no script is running, the dashboard has cached nothing, no connection of
\* DatabaseManager was opened
others == <<pc, cache, conns, success_steps, done>>
AtRest ==
    /\ pc = "idle"
    /\ cache = <<>>
    /\ conns = <<>>
    /\ success_steps = 0
    /\ done = <<>>

\* what an earlier execution left on disk: nothing, or the files written by a
\* complete run of one of the two pipelines over some sheet
EarlierRuns ==
    {[csv |-> None, db |-> EmptyDb]}
    \cup { LET r == process_data(src, None, EmptyDb, "none")
           IN  [csv |-> r.csv, db |-> r.db] : src \in Sources \ {Unreadable} }
    \cup { LET p == clean_data_method(load_data(init_processor, src).self).self
           IN  [csv |-> save_cleaned_data(p, None).csv,
                db |-> create_database(p, EmptyDb, "none").db]
           : src \in Sources \ {Unreadable} }

\* a fresh process: a new processor object, the files as an earlier run left them
Init ==
    /\ raw_data = init_processor.raw_data
    /\ clean_data = init_processor.clean_data
    /\ removed_count = 0
    /\ \E e \in EarlierRuns : csv = e.csv /\ db = e.db
    /\ ret = Call("__init__", "None")
    /\ run_src = None
    /\ run_df = None
    /\ db_before = db
    /\ csv_before = csv
    /\ runs = 0
    /\ plan = "ascending"
    /\ args = <<>>
    /\ result = None
    /\ prev_query = None
    /\ AtRest

\* every call of the pipeline records what the files held when it started;
\* it runs no catalog query
Begin ==
    /\ db_before' = db
    /\ csv_before' = csv
    /\ UNCHANGED <<plan, args, result, prev_query>>
    /\ UNCHANGED others

\* a call that reads the source sheet
Read ==
    /\ runs < MaxRuns
    /\ runs' = runs + 1

\* processor = OlaDataProcessor()
Do_init ==
    /\ Begin
    /\ raw_data' = None
    /\ clean_data' = None
    /\ ret' = Call("__init__", "None")
    /\ run_src' = None
    /\ run_df' = None
    /\ UNCHANGED <<removed_count, csv, db, runs>>

Do_load_data ==
    \E src \in Sources :
        LET r == load_data(self, src)
        IN  /\ Begin
            /\ Read
            /\ raw_data' = r.self.raw_data
            /\ ret' = Caught("load_data", r.ret, r.err)
            /\ run_src' = src
            /\ UNCHANGED <<clean_data, removed_count, csv, db, run_df>>

Do_explore_data ==
    /\ Begin
    /\ ret' = Call("explore_data", explore_data(self))
    /\ UNCHANGED <<raw_data, clean_data, removed_count, csv, db, run_src, run_df, runs>>

\* OlaDataProcessor.clean_data(processor): the method itself
Do_clean_data ==
    LET r == clean_data_method(self)
    IN  /\ Begin
        /\ clean_data' = r.self.clean_data
        /\ removed_count' = IF r.ret = "DataFrame" THEN r.removed_count ELSE removed_count
        /\ ret' = Call("clean_data", r.ret)
        /\ run_df' = r.self.clean_data
        /\ UNCHANGED <<raw_data, csv, db, run_src, runs>>

Do_save_cleaned_data ==
    LET r == save_cleaned_data(self, csv)
    IN  /\ Begin
        /\ csv' = r.csv
        /\ ret' = Call("save_cleaned_data", r.ret)
        /\ UNCHANGED <<raw_data, clean_data, removed_count, db, run_src, run_df, runs>>

Do_create_database ==
    \E fail \in FailPoints \ {"indexes"} :
        LET r == create_database(self, db, fail)
        IN  /\ Begin
            /\ db' = r.db
            /\ ret' = Caught("create_database", r.ret, r.err)
            /\ UNCHANGED <<raw_data, clean_data, removed_count, csv, run_src, run_df, runs>>

\* python src/data_processor.py
Do_main ==
    \E src \in Sources :
        LET r == main(src, csv, db)
        IN  /\ Begin
            /\ Read
            /\ csv' = r.csv
            /\ db' = r.db
            /\ ret' = Call("main", r.ret)
            /\ run_src' = src
            /\ run_df' = None
            /\ UNCHANGED <<raw_data, clean_data, removed_count>>

\* run_project.process_data()
Do_process_data ==
    \E src \in Sources, fail \in FailPoints :
        LET r == process_data(src, csv, db, fail)
        IN  /\ Begin
            /\ Read
            /\ csv' = r.csv
            /\ db' = r.db
            /\ ret' = Caught("process_data", r.ret, r.err)
            /\ run_src' = src
            /\ run_df' = r.df
            /\ UNCHANGED <<raw_data, clean_data, removed_count>>

Next ==
    \/ Do_init
    \/ Do_load_data
    \/ Do_explore_data
    \/ Do_clean_data
    \/ Do_save_cleaned_data
    \/ Do_create_database
    \/ Do_main
    \/ Do_process_data

Spec == Init /\ [][Next]_vars

(***************************************************************************)
(* The cleaning specification: clean_data applied to every loaded table    *)
(* over a wider set of raw cells (texts, 'null', numbers as text).         *)
(***************************************************************************)
CleanStatuses == {Str("Success"), Str("Cancelled by Customer"), Str("null")}
CleanValues == {NA, Str("null"), Num(-5), Num(100)}
CleanDistances == {NA, Str("-1"), Num(0), Num(10)}

CleanRows ==
    { Row("B1", 1, "C1", "Auto", st, v, NA, dist) :
        st \in CleanStatuses, v \in CleanValues, dist \in CleanDistances }

\* the processor right after load_data() returned a table
InitClean ==
    /\ \E rows \in Tables(CleanRows, MaxCleanRows) :
          /\ run_src = Sheet(rows)
          /\ raw_data = load_data(init_processor, Sheet(rows)).self.raw_data
    /\ clean_data = init_processor.clean_data
    /\ removed_count = 0
    /\ csv = None
    /\ db = EmptyDb
    /\ ret = Call("load_data", "DataFrame")
    /\ run_df = None
    /\ db_before = db
    /\ csv_before = csv
    /\ runs = 0
    /\ plan = "ascending"
    /\ args = <<>>
    /\ result = None
    /\ prev_query = None
    /\ AtRest

NextClean == Do_clean_data

SpecClean == InitClean /\ [][NextClean]_vars

(***************************************************************************)
(* The derivation specification: clean_data over the booking statuses, the *)
(* payment methods and the distances that the flags and the fills tell     *)
(* apart.                                                                  *)
(***************************************************************************)
FlagStatuses == {Str("Success"), Str("success"), Str("Successful"),
                 Str("Cancelled by Customer"), Str("Cancelled by Driver"),
                 Str("Driver and Customer"), Str("cancelled by customer"),
                 Str("null"), NA}
FillStatuses == {Str("Success"), Str("Cancelled by Customer"), Str("null")}
FillPayments == {NA, Str("null"), Str("UPI")}
FillDistances == {NA, Str("null"), Num(10)}

FlagRows ==
    { Row("B1", 1, "C1", "Auto", st, Num(100), Str("UPI"), Num(10)) : st \in FlagStatuses }
    \cup { Row("B1", 1, "C1", "Auto", st, Num(100), pay, dist) :
              st \in FillStatuses, pay \in FillPayments, dist \in FillDistances }

InitFlags ==
    /\ \E rows \in Tables(FlagRows, MaxCleanRows) :
          /\ run_src = Sheet(rows)
          /\ raw_data = load_data(init_processor, Sheet(rows)).self.raw_data
    /\ clean_data = init_processor.clean_data
    /\ removed_count = 0
    /\ csv = None
    /\ db = EmptyDb
    /\ ret = Call("load_data", "DataFrame")
    /\ run_df = None
    /\ db_before = db
    /\ csv_before = csv
    /\ runs = 0
    /\ plan = "ascending"
    /\ args = <<>>
    /\ result = None
    /\ prev_query = None
    /\ AtRest

NextFlags == Do_clean_data

SpecFlags == InitFlags /\ [][NextFlags]_vars

(***************************************************************************)
(* The query specification: the catalog queries of BusinessQueries on the  *)
(* database file a complete pipeline run left (or on no database at all).  *)
(***************************************************************************)
QueryRows ==
    { Row("B1", 1, "C1", "Auto", Str("Success"), Num(100), Str("UPI"), Num(10)),
      Row("B2", 1, "C2", "Mini", Str("Success"), Num(100), Str("null"), Num(10)),
      Row("B3", 2, "C1", "null", Str("Cancelled by Customer"), Num(50), Str("null"), Str("null")),
      Row("B4", 2, "C3", "Auto", Str("cancelled by driver"), Str("null"), Str("Cash"), Str("null")) }

Limits == {-1, 0, 1, 2}

QueryDatabases ==
    {EmptyDb}
    \cup { process_data(Sheet(rows), None, EmptyDb, "none").db
           : rows \in Tables(QueryRows, MaxQueryRows) }
    \cup { create_database(clean_data_method(load_data(init_processor, Sheet(rows)).self).self,
                           EmptyDb, "none").db
           : rows \in Tables(QueryRows, MaxQueryRows) }

InitQuery ==
    /\ raw_data = init_processor.raw_data
    /\ clean_data = init_processor.clean_data
    /\ removed_count = 0
    /\ csv = None
    /\ db \in QueryDatabases
    /\ ret = Call("__init__", "None")
    /\ run_src = None
    /\ run_df = None
    /\ db_before = db
    /\ csv_before = csv
    /\ runs = 0
    /\ plan \in Plans
    /\ args = <<>>
    /\ result = None
    /\ prev_query = None
    /\ AtRest

\* every catalog query records the file it started from and, when it repeats
\* the call before it, what that call returned
BeginQuery(op, a) ==
    /\ db_before' = db
    /\ csv_before' = csv
    /\ prev_query' = IF ret.op = op /\ args = a
                     THEN [op |-> ret.op, args |-> args, result |-> result]
                     ELSE None
    /\ UNCHANGED <<raw_data, clean_data, removed_count, csv, run_src, run_df, runs, plan>>
    /\ UNCHANGED others

Do_get_successful_bookings ==
    LET r == get_successful_bookings(db, plan)
    IN  /\ BeginQuery("get_successful_bookings", <<>>)
        /\ db' = r.db
        /\ ret' = Caught("get_successful_bookings", "DataFrame", r.err)
        /\ args' = <<>>
        /\ result' = r.df

Do_get_vehicle_performance ==
    LET r == get_vehicle_performance(db, plan)
    IN  /\ BeginQuery("get_vehicle_performance", <<>>)
        /\ db' = r.db
        /\ ret' = Caught("get_vehicle_performance", "DataFrame", r.err)
        /\ args' = <<>>
        /\ result' = r.df

Do_get_top_customers ==
    \E limit \in Limits :
        LET r == get_top_customers(db, plan, limit)
        IN  /\ BeginQuery("get_top_customers", <<limit>>)
            /\ db' = r.db
            /\ ret' = Caught("get_top_customers", "DataFrame", r.err)
            /\ args' = <<limit>>
            /\ result' = r.df

Do_get_cancellation_analysis ==
    LET r == get_cancellation_analysis(db, plan)
    IN  /\ BeginQuery("get_cancellation_analysis", <<>>)
        /\ db' = r.db
        /\ ret' = Caught("get_cancellation_analysis", "dict", r.err)
        /\ args' = <<>>
        /\ result' = r.df

Do_get_revenue_analysis ==
    LET r == get_revenue_analysis(db, plan)
    IN  /\ BeginQuery("get_revenue_analysis", <<>>)
        /\ db' = r.db
        /\ ret' = Caught("get_revenue_analysis", "dict", r.err)
        /\ args' = <<>>
        /\ result' = r.df

NextQuery ==
    \/ Do_get_successful_bookings
    \/ Do_get_vehicle_performance
    \/ Do_get_top_customers
    \/ Do_get_cancellation_analysis
    \/ Do_get_revenue_analysis

SpecQuery == InitQuery /\ [][NextQuery]_vars

(***************************************************************************)
(* Properties                                                              *)
(***************************************************************************)
RowsOf(x) == IF x = None THEN <<>> ELSE x.rows

Cleaned == ret = Call("clean_data", "DataFrame")
CreatedDatabase == ret = Call("create_database", "True")
ProcessedData == ret = Call("process_data", "True")

\* the raw cell holds no number: missing, 'null', or a text that is no number
AbsentInput(c) == IsNA(to_numeric(IF c = Str("null") THEN NA ELSE c))
\* the raw cell holds a negative number
NegativeInput(c) == LtZero(to_numeric(c))

\* the input row with index label i survives in the cleaned table
Kept(i) == \E k \in 1..Len(clean_data.rows) : clean_data.rows[k].idx = i

\* C1: after a successful run the three summary tables are the aggregates of
\* the rides table that run wrote (they are rebuilt on every run).
C1_SummariesRebuiltEveryRun ==
    /\ CreatedDatabase =>
          /\ db.vehicle_summary = Summary(dp_vehicle_summary_query(db.rides.rows))
          /\ db.daily_summary = Summary(dp_daily_summary_query(db.rides.rows))
          /\ db.customer_summary = Summary(dp_customer_summary_query(db.rides.rows))
    /\ ProcessedData =>
          /\ db.vehicle_summary = Summary(rp_vehicle_summary_query(db.rides.rows))
          /\ db.daily_summary = Summary(rp_daily_summary_query(db.rides.rows))
          /\ db.customer_summary = Summary(rp_customer_summary_query(db.rides.rows))

\* C2: after a successful run the rides table holds exactly the rows of that
\* run's cleaned table, in order, once each; nothing of the old table is left.
C2_RidesReplacedByCleanedTable ==
    /\ CreatedDatabase =>
          /\ db.rides # None
          /\ Len(db.rides.rows) = Len(clean_data.rows)
          /\ \A i \in 1..Len(clean_data.rows) :
                \A f \in DOMAIN clean_data.rows[i] \ {"idx"} :
                    db.rides.rows[i][f] = clean_data.rows[i][f]
    /\ ProcessedData =>
          /\ db.rides # None
          /\ Len(db.rides.rows) = Len(run_df.rows)
          /\ \A i \in 1..Len(run_df.rows) :
                \A f \in DOMAIN run_df.rows[i] \ {"idx"} :
                    db.rides.rows[i][f] = run_df.rows[i][f]

C2_Witness ==
    /\ CreatedDatabase \/ ProcessedData
    /\ db_before.rides # None
    /\ Len(db_before.rides.rows) > 0
    /\ Len(db.rides.rows) > 0
    /\ db.rides.rows[1].Booking_ID # db_before.rides.rows[1].Booking_ID

\* C3: a run that fails leaves the database as it was before the run.
C3_FailedRunLeavesDatabaseUntouched ==
    (ret.op \in {"create_database", "process_data"} /\ ret.val = "False")
        => db = db_before

\* C4: when the source cannot be read nothing is written and no run reports
\* completion: process_data returns False and main does not complete, both
\* leaving the files as they were; load_data returns None, and on a processor
\* that holds no table every later step returns None / False and writes nothing.
C4_UnreadableSourceWritesNothing ==
    /\ (run_src = Unreadable /\ ret.op \in {"process_data", "main", "load_data"}) =>
          /\ db = db_before
          /\ csv = csv_before
          /\ ret.op = "process_data" => ret.val = "False"
          /\ ret.op = "main" => ret.val # "Completed"
          /\ ret.op = "load_data" => ret.val = "None"
    /\ (raw_data = None /\ ret.op \in {"explore_data", "clean_data",
                                        "save_cleaned_data", "create_database"}) =>
          /\ db = db_before
          /\ csv = csv_before
          /\ clean_data = None
          /\ ret.op \in {"explore_data", "clean_data"} => ret.val = "None"
          /\ ret.op \in {"save_cleaned_data", "create_database"} => ret.val = "False"

C4_Witness ==
    /\ run_src = Unreadable
    /\ ret = Caught("process_data", "False", "read_excel")
    /\ db.rides # None

\* C5: a source with zero rows makes the run fail with a load error and
\* leaves the files of the earlier run untouched.
C5_EmptySourceFailsAndWritesNothing ==
    (run_src = Sheet(<<>>) /\ ret.op = "process_data"
        /\ ret.err \notin FailPoints \ {"none"})
        => ret.val = "False" /\ db = db_before /\ csv = csv_before

\* C6: cleaned rows + removed_count = input rows, and an input row is missing
\* from the cleaned table only if its Booking_Value or Ride_Distance is negative.
C6_Conservation ==
    Cleaned =>
        /\ Len(clean_data.rows) + removed_count = Len(raw_data.rows)
        /\ \A i \in 1..Len(raw_data.rows) :
              ~Kept(raw_data.rows[i].idx) =>
                  \/ NegativeInput(raw_data.rows[i].Booking_Value)
                  \/ NegativeInput(raw_data.rows[i].Ride_Distance)

C6_Witness ==
    /\ Cleaned
    /\ Len(raw_data.rows) = 2
    /\ removed_count = 1
    /\ Len(clean_data.rows) = 1

\* C7: every cleaned row has Booking_Value absent or >= 0 and Ride_Distance
\* absent or >= 0, and an input row with an absent value in either column is
\* kept unless the other column is negative.
C7_NonNegativeAndAbsentKept ==
    Cleaned =>
        /\ \A k \in 1..Len(clean_data.rows) :
              /\ IsNA(clean_data.rows[k].Booking_Value)
                    \/ (IsNum(clean_data.rows[k].Booking_Value)
                        /\ clean_data.rows[k].Booking_Value.n >= 0)
              /\ IsNA(clean_data.rows[k].Ride_Distance)
                    \/ (IsNum(clean_data.rows[k].Ride_Distance)
                        /\ clean_data.rows[k].Ride_Distance.n >= 0)
        /\ \A i \in 1..Len(raw_data.rows) :
              LET v == raw_data.rows[i].Booking_Value
                  dist == raw_data.rows[i].Ride_Distance
              IN  (/\ AbsentInput(v) \/ AbsentInput(dist)
                   /\ ~NegativeInput(v)
                   /\ ~NegativeInput(dist)) => Kept(raw_data.rows[i].idx)

C7_Witness ==
    /\ Cleaned
    /\ \E i \in 1..Len(raw_data.rows) :
          /\ AbsentInput(raw_data.rows[i].Booking_Value)
          /\ Kept(raw_data.rows[i].idx)
    /\ \E i \in 1..Len(raw_data.rows) :
          /\ AbsentInput(raw_data.rows[i].Ride_Distance)
          /\ Kept(raw_data.rows[i].idx)
    /\ removed_count > 0

C9_RevenuePerKmGuarded ==
    /\ (ret.op = "clean_data" /\ raw_data # None) => ret.val = "DataFrame"
    /\ Cleaned =>
        \A k \in 1..Len(clean_data.rows) :
            LET r == clean_data.rows[k]
                q == r.Revenue_Per_KM
            IN  /\ (GtZero(r.Ride_Distance) /\ r.Is_Successful = 1 /\ IsNum(r.Booking_Value))
                      => /\ IsNum(q)
                         /\ q.n * r.Ride_Distance.n * r.Booking_Value.d
                               = r.Booking_Value.n * q.d * r.Ride_Distance.d
                /\ ~(GtZero(r.Ride_Distance) /\ r.Is_Successful = 1 /\ IsNum(r.Booking_Value))
                      => IsNA(q)
                /\ (r.Booking_Status = Str("Success") /\ r.Booking_Value = Num(100)
                        /\ r.Ride_Distance = Num(10)) => q = Num(10)

C9_Witness ==
    /\ Cleaned
    /\ \E k \in 1..Len(clean_data.rows) : clean_data.rows[k].Revenue_Per_KM = Num(10)
    /\ \E k \in 1..Len(clean_data.rows) :
          /\ clean_data.rows[k].Is_Successful = 0
          /\ clean_data.rows[k].Booking_Value = Num(100)
          /\ clean_data.rows[k].Ride_Distance = Num(10)
          /\ clean_data.rows[k].Revenue_Per_KM = NA

\* C10: in the rides table written by process_data, Revenue_Per_KM is absent
\* on every row that is not successful or whose distance is zero or absent.
C10_PersistedRevenueOnlyForSuccess ==
    ProcessedData =>
        \A i \in 1..Len(db.rides.rows) :
            LET r == db.rides.rows[i]
            IN  (r.Booking_Status # Str("Success") \/ ~GtZero(r.Ride_Distance))
                    => r.Revenue_Per_KM = NA

\* the input row a cleaned row comes from (read_excel labels the rows 0, 1, ...)
InputOf(c) == raw_data.rows[c.idx + 1]

\* the raw cell holds no text: missing, or the text 'null'
AbsentText(c) == IsNA(c) \/ c = Str("null")

\* the table with a true missing value in place of every text 'null'
AsMissing(rows) ==
    [i \in 1..Len(rows) |->
        [f \in DOMAIN rows[i] |->
            IF f \in Columns /\ rows[i][f] = Str("null") THEN NA ELSE rows[i][f]]]

\* C11: cleaning the cleaned table once more returns the same table (same
\* rows, same values in every column) and removes no row.
C11_CleaningIdempotent ==
    Cleaned =>
        LET again == clean_data_body(clean_data.rows)
        IN  /\ again.raised = "none"
            /\ again.table = clean_data.rows
            /\ again.removed_count = 0

\* C12: a table with the text 'null' in some cells and the table with true
\* missing values in those cells are cleaned to the same table, by clean_data
\* and by the preprocessing of process_data.
C12_NullTextIsMissing ==
    Cleaned =>
        /\ clean_data_body(AsMissing(raw_data.rows)).table = clean_data.rows
        /\ clean_data_body(AsMissing(raw_data.rows)).removed_count = removed_count
        /\ rp_preprocess(AsMissing(raw_data.rows)) = rp_preprocess(raw_data.rows)

C12_Witness ==
    /\ Cleaned
    /\ \E k \in 1..Len(clean_data.rows) :
          /\ InputOf(clean_data.rows[k]).Payment_Method = Str("null")
          /\ InputOf(clean_data.rows[k]).Booking_Status = Str("null")
          /\ clean_data.rows[k].Ride_Distance = Num(0)
    /\ \E k \in 1..Len(clean_data.rows) :
          /\ InputOf(clean_data.rows[k]).Payment_Method = NA
          /\ clean_data.rows[k].Payment_Method = Str("Cash")

\* C13: in the cleaned table a missing distance of a row that is not
\* successful is 0, a missing payment method of a successful row is 'Cash',
\* and every other distance and payment method is as in the input: present
\* values are kept, a missing distance of a successful row and a missing
\* payment method of a row that is not successful stay missing.
C13_BusinessNullFilling ==
    Cleaned =>
        \A k \in 1..Len(clean_data.rows) :
            LET c == clean_data.rows[k]
                r == InputOf(c)
                success == c.Booking_Status = Str("Success")
            IN  /\ (~success /\ AbsentInput(r.Ride_Distance)) => c.Ride_Distance = Num(0)
                /\ (success /\ AbsentInput(r.Ride_Distance)) => c.Ride_Distance = NA
                /\ ~AbsentInput(r.Ride_Distance) => c.Ride_Distance = to_numeric(r.Ride_Distance)
                /\ (success /\ AbsentText(r.Payment_Method)) => c.Payment_Method = Str("Cash")
                /\ (~success /\ AbsentText(r.Payment_Method)) => c.Payment_Method = NA
                /\ ~AbsentText(r.Payment_Method) => c.Payment_Method = r.Payment_Method

C13_Witness ==
    /\ Cleaned
    /\ \E k \in 1..Len(clean_data.rows) :
          /\ clean_data.rows[k].Booking_Status = Str("Cancelled by Customer")
          /\ InputOf(clean_data.rows[k]).Ride_Distance = NA
          /\ InputOf(clean_data.rows[k]).Payment_Method = NA
          /\ clean_data.rows[k].Ride_Distance = Num(0)
          /\ clean_data.rows[k].Payment_Method = NA
          /\ clean_data.rows[k].Is_Customer_Cancel = 1
          /\ clean_data.rows[k].Is_Successful = 0
    /\ \E k \in 1..Len(clean_data.rows) :
          /\ clean_data.rows[k].Booking_Status = Str("Success")
          /\ InputOf(clean_data.rows[k]).Ride_Distance = NA
          /\ InputOf(clean_data.rows[k]).Payment_Method = Str("null")
          /\ clean_data.rows[k].Ride_Distance = NA
          /\ clean_data.rows[k].Payment_Method = Str("Cash")

\* C14: Is_Successful is 1 when the status is exactly 'Success' and 0 for
\* every other status (missing, other case, longer text); it is never missing.
\* The same holds for the flag process_data derives.
C14_SuccessFlagExact ==
    Cleaned =>
        /\ \A k \in 1..Len(clean_data.rows) :
              LET c == clean_data.rows[k]
              IN  /\ c.Is_Successful \in {0, 1}
                  /\ c.Is_Successful = 1 <=> InputOf(c).Booking_Status = Str("Success")
        /\ \A i \in 1..Len(raw_data.rows) :
              LET c == rp_preprocess(raw_data.rows)[i]
              IN  /\ c.Is_Successful \in {0, 1}
                  /\ c.Is_Successful = 1 <=> raw_data.rows[i].Booking_Status = Str("Success")

C14_Witness ==
    /\ Cleaned
    /\ \E k \in 1..Len(clean_data.rows) :
          /\ clean_data.rows[k].Booking_Status = Str("Success")
          /\ clean_data.rows[k].Is_Successful = 1
    /\ \E k \in 1..Len(clean_data.rows) :
          /\ clean_data.rows[k].Booking_Status \in {Str("success"), Str("Successful")}
          /\ clean_data.rows[k].Is_Successful = 0

\* C15: Is_Customer_Cancel is 1 exactly when the status is a text containing
\* 'Customer' (in this case), Is_Driver_Cancel exactly when it contains
\* 'Driver'; a status containing both sets both, a missing status neither.
C15_CancelFlagsBySubstring ==
    Cleaned =>
        \A k \in 1..Len(clean_data.rows) :
            LET c == clean_data.rows[k]
                st == InputOf(c).Booking_Status
            IN  /\ c.Is_Customer_Cancel \in {0, 1}
                /\ c.Is_Driver_Cancel \in {0, 1}
                /\ c.Is_Customer_Cancel = 1 <=> (st.t = "str" /\ Contains(st.s, "Customer"))
                /\ c.Is_Driver_Cancel = 1 <=> (st.t = "str" /\ Contains(st.s, "Driver"))
                /\ AbsentText(st) => (c.Is_Customer_Cancel = 0 /\ c.Is_Driver_Cancel = 0)

C15_Witness ==
    /\ Cleaned
    /\ \E k \in 1..Len(clean_data.rows) :
          /\ clean_data.rows[k].Booking_Status = Str("Driver and Customer")
          /\ clean_data.rows[k].Is_Customer_Cancel = 1
          /\ clean_data.rows[k].Is_Driver_Cancel = 1
    /\ \E k \in 1..Len(clean_data.rows) :
          /\ clean_data.rows[k].Booking_Status = Str("cancelled by customer")
          /\ clean_data.rows[k].Is_Customer_Cancel = 0

CatalogQueries == {"get_successful_bookings", "get_vehicle_performance",
                   "get_top_customers", "get_cancellation_analysis",
                   "get_revenue_analysis"}

RECURSIVE SumBookings(_)
SumBookings(groups) ==
    IF groups = {} THEN 0
    ELSE LET g == CHOOSE g \in groups : TRUE
         IN  g.Total_Bookings + SumBookings(groups \ {g})

\* C16: in vehicle_summary as built from the rides table, and in the result
\* of get_vehicle_performance, every vehicle type has Successful_Bookings <=
\* Total_Bookings, and Total_Bookings summed over all groups (the group without
\* a vehicle type included) is the number of rows of rides.
C16_VehicleSummaryConsistent ==
    /\ db.vehicle_summary # None =>
          /\ \A g \in db.vehicle_summary.groups :
                g.Successful_Bookings >= 0 /\ g.Successful_Bookings <= g.Total_Bookings
          /\ SumBookings(db.vehicle_summary.groups) = Len(db.rides.rows)
    /\ ret.op = "get_vehicle_performance" =>
          /\ \A i \in 1..Len(result.rows) :
                /\ result.rows[i].Successful_Bookings >= 0
                /\ result.rows[i].Successful_Bookings <= result.rows[i].Total_Bookings
          /\ SumInt(Col(result.rows, "Total_Bookings")) = Len(rides_rows(db))

C16_Witness ==
    /\ ret.op = "get_vehicle_performance"
    /\ Len(result.rows) = 2
    /\ \E i \in 1..2 : /\ result.rows[i].Vehicle_Type = NA
                       /\ result.rows[i].Successful_Bookings < result.rows[i].Total_Bookings
    /\ \E g \in db.vehicle_summary.groups : g.Vehicle_Type = NA
    /\ \E g \in db.vehicle_summary.groups : g.Successful_Bookings = 1

\* the total is the sum of Booking_Value over the successful rows of the group
TotalOfSuccessful(total, g) ==
    ROUND2(total) \in {ROUND2(SUM(CaseElseZero(g, "Booking_Value"))),
                       ROUND2(SUM(CaseElseNull(g, "Booking_Value")))}

\* the average is the average of Booking_Value over the successful rows
AverageOfSuccessful(avg, g) ==
    ROUND2(avg) = ROUND2(AVG(CaseElseNull(g, "Booking_Value")))

\* C17: in the three summary tables a pipeline run built, every revenue total,
\* spend total and average booking value is taken over the successful rows of
\* the group only, while Total_Bookings counts every row of the group.
C17_AggregatesOverSuccessfulRows ==
    db.rides # None =>
        /\ \A s \in db.vehicle_summary.groups :
              LET g == Group(db.rides.rows, "Vehicle_Type", s.Vehicle_Type)
              IN  /\ s.Total_Bookings = Len(g)
                  /\ TotalOfSuccessful(s.Total_Revenue, g)
                  /\ AverageOfSuccessful(s.Avg_Booking_Value, g)
        /\ \A s \in db.daily_summary.groups :
              LET g == Group(db.rides.rows, "Date", s.Date)
              IN  /\ s.Total_Bookings = Len(g)
                  /\ TotalOfSuccessful(s.Total_Revenue, g)
                  /\ AverageOfSuccessful(s.Avg_Booking_Value, g)
        /\ \A s \in db.customer_summary.groups :
              LET g == Group(db.rides.rows, "Customer_ID", s.Customer_ID)
              IN  /\ s.Total_Bookings = Len(g)
                  /\ TotalOfSuccessful(s.Total_Spent, g)

\* the same rows stored in another order
Reorderings(rows) ==
    { [i \in 1..Len(rows) |-> rows[f[i]]] :
        f \in { f \in [1..Len(rows) -> 1..Len(rows)] :
                  \A i, j \in 1..Len(rows) : f[i] = f[j] => i = j } }

\* C18: what get_top_customers(limit) returns is determined by the contents of
\* rides: the same rows in any stored order, read under any plan SQLite may
\* choose, give the same customers in the same order.
C18_TopCustomersTieBreak ==
    (ret.op = "get_top_customers" /\ db.rides # None) =>
        \A p \in Plans, rows \in Reorderings(db.rides.rows) :
            top_customers_query(rows, p, args[1]) = result.rows

\* C19: get_top_customers with a negative limit fails with an error, returns
\* no result set and leaves the database as it was.
C19_NegativeLimitRejected ==
    (ret.op = "get_top_customers" /\ args[1] < 0) =>
        /\ ret.val # "DataFrame"
        /\ ret.err # "none"
        /\ db = db_before

\* C20: a catalog query leaves the database and the CSV file as they were, and
\* a query repeated with the same arguments returns what it returned before.
C20_QueriesArePure ==
    ret.op \in CatalogQueries =>
        /\ db = db_before
        /\ csv = csv_before
        /\ prev_query # None => prev_query.result = result

C20_Witness ==
    /\ ret.op = "get_top_customers"
    /\ args = <<1>>
    /\ prev_query # None
    /\ prev_query.args = <<1>>
    /\ Len(result.rows) = 1
    /\ Len(top_customers_query(db.rides.rows, plan, -1)) = 2
    /\ db.rides # None

\* the indexes of sql/create_tables.sql: Date, Customer_ID, Vehicle_Type,
\* Booking_Status and Is_Successful of rides
secondary_indexes ==
    {"idx_rides_date", "idx_rides_customer", "idx_rides_vehicle",
     "idx_rides_status", "idx_rides_successful"}

\* C21: after every successful run (a later run that replaced rides included)
\* the rides table carries the five secondary indexes, on Date, Vehicle_Type,
\* Booking_Status, Customer_ID and Is_Successful.
C21_SecondaryIndexesAfterRun ==
    (CreatedDatabase \/ ProcessedData) => secondary_indexes \subseteq db.indexes

\* no two rows of the table carry the same Booking_ID
UniqueBookingId(rows) ==
    \A i, j \in 1..Len(rows) : rows[i].Booking_ID = rows[j].Booking_ID => i = j

\* C22: Booking_ID is unique in the cleaned table and in the rides table
\* persisted from it, whatever the input (two input rows with the same
\* Booking_ID included).
C22_BookingIdUnique ==
    Cleaned =>
        /\ UniqueBookingId(clean_data.rows)
        /\ UniqueBookingId(create_database(self, db, "none").db.rides.rows)

(***************************************************************************)
(* The rebuild specification: a pipeline run taken one committed statement *)
(* at a time (to_sql commits on its own; conn.execute of CREATE TABLE and  *)
(* CREATE INDEX runs in autocommit), next to a reader of the same file.    *)
(***************************************************************************)
\* what four SELECTs of a reader return from the committed file
snapshot(d) ==
    [rides |-> d.rides, vehicle_summary |-> d.vehicle_summary,
     daily_summary |-> d.daily_summary, customer_summary |-> d.customer_summary]

\* the statement after `at` in create_summary_tables / _create_summary_tables
after(run, at) ==
    CASE at = "to_sql" -> "vehicle_summary"
      [] at = "vehicle_summary" -> "daily_summary"
      [] at = "daily_summary" -> "customer_summary"
      [] at = "customer_summary" -> IF run = "process_data" THEN "indexes" ELSE "idle"
      [] at = "indexes" -> "idle"

\* the file after the statement `at` of the run has been committed
statement(run, at, d) ==
    CASE at = "vehicle_summary" ->
            create_table_if_not_exists(d, at,
                IF run = "process_data" THEN rp_vehicle_summary_query(d.rides.rows)
                ELSE dp_vehicle_summary_query(d.rides.rows))
      [] at = "daily_summary" ->
            create_table_if_not_exists(d, at,
                IF run = "process_data" THEN rp_daily_summary_query(d.rides.rows)
                ELSE dp_daily_summary_query(d.rides.rows))
      [] at = "customer_summary" ->
            create_table_if_not_exists(d, at,
                IF run = "process_data" THEN rp_customer_summary_query(d.rides.rows)
                ELSE dp_customer_summary_query(d.rides.rows))
      [] at = "indexes" -> create_indexes(d, rp_indexes)

Running(op) == Call(op, "running")

\* process_data() up to and including df.to_sql('rides', ...)
Run_process_data ==
    \E src \in Sources :
        LET r == read_excel(src)
            df == DataFrame(rp_preprocess(r.df.rows))
        IN  /\ pc = "idle"
            /\ Read
            /\ db_before' = db
            /\ csv_before' = csv
            /\ run_src' = src
            /\ result' = None
            /\ args' = <<>>
            /\ IF r.ok
               THEN /\ csv' = File(MapRows(without_index, df.rows))
                    /\ db' = to_sql(df, db)
                    /\ run_df' = df
                    /\ ret' = Running("process_data")
                    /\ pc' = after("process_data", "to_sql")
               ELSE /\ ret' = Caught("process_data", "False", "read_excel")
                    /\ run_df' = None
                    /\ UNCHANGED <<csv, db, pc>>
            /\ UNCHANGED <<raw_data, clean_data, removed_count, plan, prev_query,
                           cache, conns, success_steps, done>>

\* create_database() up to and including self.clean_data.to_sql('rides', ...)
Run_create_database ==
    /\ pc = "idle"
    /\ db_before' = db
    /\ csv_before' = csv
    /\ result' = None
    /\ args' = <<>>
    /\ IF clean_data = None
       THEN /\ ret' = Call("create_database", "False")
            /\ UNCHANGED <<db, pc>>
       ELSE /\ db' = to_sql(clean_data, db)
            /\ ret' = Running("create_database")
            /\ pc' = after("create_database", "to_sql")
    /\ UNCHANGED <<raw_data, clean_data, removed_count, csv, run_src, run_df, runs,
                   plan, prev_query, cache, conns, success_steps, done>>

\* the next conn.execute(...) of the running script; after the last one the
\* script returns True
Commit_statement ==
    /\ pc # "idle"
    /\ db' = statement(ret.op, pc, db)
    /\ pc' = after(ret.op, pc)
    /\ ret' = IF pc' = "idle" THEN Call(ret.op, "True") ELSE ret
    /\ UNCHANGED <<raw_data, clean_data, removed_count, csv, run_src, run_df,
                   db_before, csv_before, runs, plan, args, result, prev_query,
                   cache, conns, success_steps, done>>

\* another process (the dashboard, BusinessQueries) reads the four tables
Do_reader ==
    /\ result' = snapshot(db)
    /\ args' = <<pc>>
    /\ UNCHANGED <<raw_data, clean_data, removed_count, csv, db, ret, run_src,
                   run_df, db_before, csv_before, runs, plan, prev_query,
                   pc, cache, conns, success_steps, done>>

\* the processor's own calls come between runs, never inside one
Idle_load_data ==
    /\ pc = "idle"
    /\ Do_load_data

Idle_clean_data ==
    /\ pc = "idle"
    /\ Do_clean_data

NextRebuild ==
    \/ Idle_load_data
    \/ Idle_clean_data
    \/ Run_process_data
    \/ Run_create_database
    \/ Commit_statement
    \/ Do_reader

SpecRebuild == Init /\ [][NextRebuild]_vars

\* the file the run in progress leaves when it returns True
Completed ==
    IF ret.op = "process_data"
    THEN process_data(run_src, csv_before, db_before, "none").db
    ELSE create_database(self, db_before, "none").db

\* C23: the rebuild is one atomic swap: a reader that reads while a run is in
\* progress gets either the four tables as they were before the run or the
\* four tables as the completed run leaves them.
C23_ReaderSeesOldOrNew ==
    (result # None /\ args # <<>> /\ args[1] # "idle") =>
        \/ result = snapshot(db_before)
        \/ result = snapshot(Completed)

(***************************************************************************)
(* streamlit_app/app.py: the dashboard's load_data(query) under            *)
(* @st.cache_data, next to runs of the pipeline                            *)
(***************************************************************************)
\* cancel_query: one row of counts; SUM over no rows is NULL
cancel_query(rows) ==
    LET customer == Len(SelectSeq(rows, LAMBDA r : Like(r.Booking_Status, "Customer")))
        driver == Len(SelectSeq(rows, LAMBDA r : Like(r.Booking_Status, "Driver")))
    IN  <<[total_bookings |-> Num(Len(rows)),
           customer_cancellations |-> IF Len(rows) = 0 THEN NA ELSE Num(customer),
           driver_cancellations |-> IF Len(rows) = 0 THEN NA ELSE Num(driver),
           successful_bookings |-> IF Len(rows) = 0 THEN NA ELSE Num(CountSuccess(rows))]>>

DashboardQueries == {"cancel_query", "status_query"}

\* pd.read_sql_query(query, conn) on the file as it is now
read_sql_query(query, d, p) ==
    IF query = "cancel_query" THEN cancel_query(d.rides.rows)
    ELSE overall_query(d.rides.rows, p)

\* load_data(query): st.cache_data (no ttl, no max_entries, never cleared)
\* returns the stored value for a query text it has seen; otherwise the body
\* runs and what it returns, the empty DataFrame of the except branch
\* included, is stored
app_load_data(store, query, d, p, available) ==
    IF query \in DOMAIN store
    THEN [cache |-> store, df |-> store[query], err |-> "none"]
    ELSE LET raised == ~available \/ d.rides = None
             df == IF raised THEN DataFrame(<<>>)
                   ELSE DataFrame(read_sql_query(query, d, p))
         IN  [cache |-> [q \in DOMAIN store \cup {query} |->
                            IF q = query THEN df ELSE store[q]],
              df |-> df,
              err |-> IF raised THEN "Database connection error" ELSE "none"]

\* a page of the dashboard calls load_data(query); the file may be
\* unreadable at that moment (locked, being replaced)
Do_app_load_data ==
    \E query \in DashboardQueries, available \in BOOLEAN :
        LET r == app_load_data(cache, query, db, plan, available)
        IN  /\ cache' = r.cache
            /\ result' = r.df
            /\ args' = <<query, available>>
            /\ ret' = Caught("app.load_data", "DataFrame", r.err)
            /\ db_before' = db
            /\ csv_before' = csv
            /\ UNCHANGED <<raw_data, clean_data, removed_count, csv, db, run_src,
                           run_df, runs, plan, prev_query, pc, conns,
                           success_steps, done>>

NextDashboard ==
    \/ Do_app_load_data
    \/ Do_process_data

SpecDashboard == Init /\ [][NextDashboard]_vars

\* C24: the dashboard re-issues its queries: a load_data(query) made while
\* the database can be read returns the result of the query over the file as
\* it is now, also for a query text issued before a pipeline run or before a
\* transient database error.
C24_DashboardReissuesQueries ==
    (ret.op = "app.load_data" /\ args[2]) =>
        result = IF db.rides = None THEN DataFrame(<<>>)
                 ELSE DataFrame(read_sql_query(args[1], db, plan))

\* C25: once load_data has read the sheet, processor.clean_data() runs the
\* cleaning, and data_processor.main() goes through its five steps in order
\* and reaches the completion message with the database created.
C25_MainRunsToCompletion ==
    (ret.op = "main" /\ run_src.t = "sheet") =>
        /\ ret.val = "Completed"
        /\ db.rides # None
        /\ csv # None

MaxConns == 2       \* connections opened per behaviour in the connection specification

Selects == {"SELECT COUNT(*) FROM rides"}
Updates == {"DELETE FROM rides", "DELETE FROM rides WHERE Is_Successful = 0"}

\* where a call on the connection can raise: sqlite3.connect, cursor.execute
\* and conn.commit raise sqlite3.Error (unreadable or locked file); a query
\* argument that is no str makes cursor.execute raise TypeError
QueryFails == {"none", "connect", "execute"}
UpdateFails == {"none", "connect", "execute", "commit", "TypeError"}

SqliteErrors == {"execute: sqlite3.Error", "commit: sqlite3.Error"}

\* the statement cannot run on this file: no such table
no_such_table(d) == d.rides = None

\* the rows of rides after the statement
apply_update(d, query) ==
    [d EXCEPT !.rides =
        Table(IF query = "DELETE FROM rides" THEN <<>>
              ELSE SelectSeq(@.rows, LAMBDA r : r.Is_Successful # 0))]

\* a context manager that closes the connection only when the block ends
\* without an exception
get_connection_leaky(connects, block) ==
    IF ~connects
    THEN [log |-> <<>>, raised |-> "sqlite3.Error"]
    ELSE [log |-> <<"connect">> \o block.calls
                  \o (IF block.raised = "sqlite3.Error" THEN <<"rollback">> ELSE <<>>)
                  \o (IF block.raised = "none" THEN <<"close">> ELSE <<>>),
          raised |-> block.raised]

\* with self.get_connection() as conn: <block>.  sqlite3.connect may raise
\* (conn is None: logged and re-raised, nothing to roll back or close); a
\* sqlite3.Error leaving the block is logged, rolled back and re-raised; the
\* finally clause closes the connection on every path
get_connection(connects, block) ==
    IF ~connects
    THEN [log |-> <<>>, raised |-> "sqlite3.Error"]
    ELSE [log |-> <<"connect">> \o block.calls
                  \o (IF block.raised = "sqlite3.Error" THEN <<"rollback">> ELSE <<>>)
                  \o <<"close">>,
          raised |-> block.raised]

\* the block of execute_query: execute, then the column names from
\* cursor.description (None after a statement that is no SELECT), fetchall
query_block(d, query, fail) ==
    IF fail = "execute" \/ no_such_table(d)
    THEN [calls |-> <<"execute: sqlite3.Error">>, raised |-> "sqlite3.Error"]
    ELSE IF query \in Updates
    THEN [calls |-> <<"execute", "description: TypeError">>, raised |-> "TypeError"]
    ELSE [calls |-> <<"execute", "fetchall">>, raised |-> "none"]

\* the block of execute_query_to_dataframe: pd.read_sql_query, which rolls
\* back itself and raises pandas' DatabaseError when the statement fails
dataframe_block(d, query, fail) ==
    IF fail = "execute" \/ no_such_table(d)
    THEN [calls |-> <<"execute: sqlite3.Error", "rollback">>, raised |-> "DatabaseError"]
    ELSE IF query \in Updates
    THEN [calls |-> <<"execute", "description: TypeError">>, raised |-> "TypeError"]
    ELSE [calls |-> <<"execute", "fetchall">>, raised |-> "none"]

\* the block of execute_update: execute, commit
update_block(d, query, fail) ==
    IF fail = "TypeError"
    THEN [calls |-> <<"execute: TypeError">>, raised |-> "TypeError"]
    ELSE IF fail = "execute" \/ no_such_table(d)
    THEN [calls |-> <<"execute: sqlite3.Error">>, raised |-> "sqlite3.Error"]
    ELSE IF fail = "commit"
    THEN [calls |-> <<"execute", "commit: sqlite3.Error">>, raised |-> "sqlite3.Error"]
    ELSE [calls |-> <<"execute", "commit">>, raised |-> "none"]

\* what the file holds once the connection is gone: the statement's effect
\* if it was committed; a transaction that is rolled back, or still open when
\* the connection is closed, is discarded
committed(d, query, log) ==
    IF \E i \in 1..Len(log) : log[i] = "commit" THEN apply_update(d, query) ELSE d

\* execute_query: the rows as a list, None after sqlite3.Error; any other
\* exception leaves the method
execute_query(d, query, fail) ==
    LET c == get_connection(fail # "connect", query_block(d, query, fail))
    IN  [db |-> IF query \in Updates THEN committed(d, query, c.log) ELSE d,
         conn |-> c,
         ret |-> IF c.raised = "none" THEN "list"
                 ELSE IF c.raised = "sqlite3.Error" THEN "None" ELSE c.raised,
         rows |-> IF c.raised = "none" THEN DataFrame(<<[count |-> Num(Len(d.rides.rows))]>>)
                  ELSE None]

\* execute_query_to_dataframe, with the connection it used
execute_query_to_dataframe_conn(d, query, fail) ==
    LET c == get_connection(fail # "connect", dataframe_block(d, query, fail))
    IN  [db |-> IF query \in Updates THEN committed(d, query, c.log) ELSE d,
         conn |-> c,
         ret |-> "DataFrame",
         rows |-> IF c.raised = "none" THEN DataFrame(<<[count |-> Num(Len(d.rides.rows))]>>)
                  ELSE DataFrame(<<>>)]

\* execute_update: True after the commit, False after sqlite3.Error
execute_update(d, query, fail) ==
    LET c == get_connection(fail # "connect", update_block(d, query, fail))
    IN  [db |-> committed(d, query, c.log),
         conn |-> c,
         ret |-> IF c.raised = "none" THEN "True"
                 ELSE IF c.raised = "sqlite3.Error" THEN "False" ELSE c.raised,
         rows |-> None]

\* a call of one of the executors: what it returned, the connection it used
Executed(op, query, fail, r) ==
    /\ db_before' = db
    /\ csv_before' = csv
    /\ db' = r.db
    /\ conns' = IF r.conn.log = <<>> THEN conns ELSE Append(conns, r.conn)
    /\ ret' = Caught(op, r.ret, r.conn.raised)
    /\ args' = <<query, fail>>
    /\ result' = r.rows
    /\ UNCHANGED <<raw_data, clean_data, removed_count, csv, run_src, run_df, runs,
                   plan, prev_query, pc, cache, success_steps, done>>

Do_execute_query ==
    \E query \in Selects \cup Updates, fail \in QueryFails :
        /\ Len(conns) < MaxConns
        /\ Executed("execute_query", query, fail, execute_query(db, query, fail))

Do_execute_query_to_dataframe ==
    \E query \in Selects \cup Updates, fail \in QueryFails :
        /\ Len(conns) < MaxConns
        /\ Executed("execute_query_to_dataframe", query, fail,
                    execute_query_to_dataframe_conn(db, query, fail))

Do_execute_update ==
    \E query \in Updates, fail \in UpdateFails :
        /\ Len(conns) < MaxConns
        /\ Executed("execute_update", query, fail, execute_update(db, query, fail))

NextConn ==
    \/ Do_execute_query
    \/ Do_execute_query_to_dataframe
    \/ Do_execute_update

SpecConn == Init /\ [][NextConn]_vars

\* the call `name` comes before the close of the connection
BeforeClose(log, name) ==
    \E i \in 1..(Len(log) - 1) : log[i] = name

\* C27: every connection get_connection opened is closed exactly once, as its
\* last call, whether the block ended normally or with any exception; after
\* a sqlite3 error raised in the block the connection is rolled back before it
\* is closed and the error reaches the caller (which returns None / False, or
\* an empty DataFrame); after any sequence of execute_query,
\* execute_query_to_dataframe and execute_update no connection is left open,
\* and an update that did not return True has changed nothing.
C27_ConnectionsClosedAndRolledBack ==
    /\ \A k \in 1..Len(conns) :
          LET log == conns[k].log
          IN  /\ log[1] = "connect"
              /\ log[Len(log)] = "close"
              /\ \A i \in 1..(Len(log) - 1) : log[i] # "close"
              /\ (\E i \in 1..Len(log) : log[i] \in SqliteErrors) =>
                    /\ BeforeClose(log, "rollback")
                    /\ conns[k].raised # "none"
    /\ (ret.op \in {"execute_query", "execute_update"} /\ ret.err = "sqlite3.Error") =>
          ret.val \in {"None", "False"}
    /\ (ret.op = "execute_update" /\ ret.val # "True") => db = db_before

C27_Witness ==
    /\ ret = Caught("execute_update", "False", "sqlite3.Error")
    /\ args = <<"DELETE FROM rides", "commit">>
    /\ Len(conns) = MaxConns
    /\ conns[Len(conns)].log = <<"connect", "execute", "commit: sqlite3.Error", "rollback", "close">>
    /\ conns[1].log = <<"connect", "execute", "description: TypeError", "close">>
    /\ db.rides # None
    /\ Len(db.rides.rows) > 0

(***************************************************************************)
(* run_project.py: main(), one step function at a time                     *)
(***************************************************************************)
total_steps == 6

\* check_prerequisites(): the workbook exists and no package is missing
check_prerequisites(exists, missing_packages) == exists /\ ~missing_packages

\* execute_sql_queries(): five queries, each read with result.iloc[0]; a
\* missing table or a failing read raises, and so does iloc[0] on the empty
\* result of "Top Vehicle by Revenue" when no ride has status 'Success'
execute_sql_queries(d, fails) ==
    /\ ~fails
    /\ d.rides # None
    /\ \E i \in 1..Len(d.rides.rows) : IsSuccess(d.rides.rows[i])

\* validate_database(): a missing summary table is only printed; the quality
\* query on rides must run
validate_database(d, fails) == ~fails /\ d.rides # None

\* a main() that goes on after a failed step
main_next_ungated(at, ok) ==
    CASE at = "check_prerequisites" -> IF ok THEN "process_data" ELSE "returned"
      [] at = "process_data" -> "execute_sql_queries"
      [] at = "execute_sql_queries" -> "validate_database"
      [] at = "validate_database" -> "create_streamlit_files"
      [] at = "create_streamlit_files" -> IF ok THEN "generate_project_summary" ELSE "raised"
      [] at = "generate_project_summary" -> IF ok THEN "final" ELSE "raised"

\* where main() goes after the step `at`: steps 1 and 2 return on False,
\* steps 3 and 4 go on either way, steps 5 and 6 return nothing and stop
\* main() only by raising
main_next(at, ok) ==
    CASE at = "check_prerequisites" -> IF ok THEN "process_data" ELSE "returned"
      [] at = "process_data" -> IF ok THEN "execute_sql_queries" ELSE "returned"
      [] at = "execute_sql_queries" -> "validate_database"
      [] at = "validate_database" -> "create_streamlit_files"
      [] at = "create_streamlit_files" -> IF ok THEN "generate_project_summary" ELSE "raised"
      [] at = "generate_project_summary" -> IF ok THEN "final" ELSE "raised"

\* the bookkeeping of main() around one step
Stepped(at, ok) ==
    /\ pc' = main_next(at, ok)
    /\ success_steps' = IF ok THEN success_steps + 1 ELSE success_steps
    /\ done' = Append(done, [step |-> at, ok |-> ok])
    /\ UNCHANGED <<raw_data, clean_data, removed_count, plan, args, result,
                   prev_query, cache, conns>>

Main_check_prerequisites ==
    \E exists \in BOOLEAN, missing_packages \in BOOLEAN :
        LET ok == check_prerequisites(exists, missing_packages)
        IN  /\ pc = "idle"
            /\ Stepped("check_prerequisites", ok)
            /\ ret' = Call("check_prerequisites", IF ok THEN "True" ELSE "False")
            /\ UNCHANGED <<csv, db, run_src, run_df, db_before, csv_before, runs>>

Main_process_data ==
    \E src \in Sources, fail \in FailPoints :
        LET r == process_data(src, csv, db, fail)
        IN  /\ pc = "process_data"
            /\ Stepped("process_data", r.ret = "True")
            /\ Read
            /\ db_before' = db
            /\ csv_before' = csv
            /\ csv' = r.csv
            /\ db' = r.db
            /\ ret' = Caught("process_data", r.ret, r.err)
            /\ run_src' = src
            /\ run_df' = r.df

Main_execute_sql_queries ==
    \E fails \in BOOLEAN :
        LET ok == execute_sql_queries(db, fails)
        IN  /\ pc = "execute_sql_queries"
            /\ Stepped("execute_sql_queries", ok)
            /\ ret' = Call("execute_sql_queries", IF ok THEN "True" ELSE "False")
            /\ UNCHANGED <<csv, db, run_src, run_df, db_before, csv_before, runs>>

Main_validate_database ==
    \E fails \in BOOLEAN :
        LET ok == validate_database(db, fails)
        IN  /\ pc = "validate_database"
            /\ Stepped("validate_database", ok)
            /\ ret' = Call("validate_database", IF ok THEN "True" ELSE "False")
            /\ UNCHANGED <<csv, db, run_src, run_df, db_before, csv_before, runs>>

\* create_streamlit_files() writes the app files, or raises (OSError)
Main_create_streamlit_files ==
    \E written \in BOOLEAN :
        /\ pc = "create_streamlit_files"
        /\ Stepped("create_streamlit_files", written)
        /\ ret' = Call("create_streamlit_files", IF written THEN "None" ELSE "OSError")
        /\ UNCHANGED <<csv, db, run_src, run_df, db_before, csv_before, runs>>

\* generate_project_summary() writes PROJECT_SUMMARY.md, or raises (OSError)
Main_generate_project_summary ==
    \E written \in BOOLEAN :
        /\ pc = "generate_project_summary"
        /\ Stepped("generate_project_summary", written)
        /\ ret' = Call("generate_project_summary", IF written THEN "None" ELSE "OSError")
        /\ UNCHANGED <<csv, db, run_src, run_df, db_before, csv_before, runs>>

\* the final summary: with every step counted the user is asked whether to
\* launch the dashboard; otherwise the number of issues is printed
Main_final ==
    \E user_choice \in {"y", "n"} :
        /\ pc = "final"
        /\ pc' = "returned"
        /\ done' = IF success_steps = total_steps
                   THEN done \o <<[step |-> "input", ok |-> TRUE]>>
                        \o (IF user_choice = "y"
                            THEN <<[step |-> "launch_dashboard", ok |-> TRUE]>> ELSE <<>>)
                   ELSE done
        /\ ret' = Call("main", "None")
        /\ UNCHANGED <<raw_data, clean_data, removed_count, csv, db, run_src, run_df,
                       db_before, csv_before, runs, plan, args, result, prev_query,
                       cache, conns, success_steps>>

NextMain ==
    \/ Main_check_prerequisites
    \/ Main_process_data
    \/ Main_execute_sql_queries
    \/ Main_validate_database
    \/ Main_create_streamlit_files
    \/ Main_generate_project_summary
    \/ Main_final

SpecMain == Init /\ [][NextMain]_vars

\* the step ran among the first n steps, with this result
Ran(step, ok, n) ==
    \E i \in 1..n : done[i] = [step |-> step, ok |-> ok]

SixSteps == <<"check_prerequisites", "process_data", "execute_sql_queries",
              "validate_database", "create_streamlit_files",
              "generate_project_summary">>

\* C28: process_data runs only right after check_prerequisites returned True;
\* when either of them returns False main returns and runs nothing more; a
\* False from execute_sql_queries or validate_database does not stop main:
\* the dashboard files and the project summary come after it; success_steps
\* never exceeds total_steps; the launch of the dashboard is offered only
\* when all six steps succeeded.
C28_MainGatesItsSteps ==
    /\ \A i \in 1..Len(done) :
          /\ done[i].step = "process_data" =>
                (i > 1 /\ done[i - 1] = [step |-> "check_prerequisites", ok |-> TRUE])
          /\ (done[i].step \in {"check_prerequisites", "process_data"} /\ ~done[i].ok) =>
                (i = Len(done) /\ pc = "returned")
          /\ (done[i].step \in {"execute_sql_queries", "validate_database"} /\ ~done[i].ok) =>
                /\ pc # "returned" \/ Ran("generate_project_summary", TRUE, Len(done))
                /\ i < Len(done) => done[i + 1].step = SixSteps[i + 1]
          /\ done[i].step \in {"input", "launch_dashboard"} =>
                \A k \in 1..Len(SixSteps) : Ran(SixSteps[k], TRUE, i - 1)
    /\ success_steps <= total_steps
    /\ success_steps <= Len(done)

C28_Witness ==
    /\ pc = "returned"
    /\ Ran("execute_sql_queries", FALSE, Len(done))
    /\ Ran("validate_database", TRUE, Len(done))
    /\ Ran("generate_project_summary", TRUE, Len(done))
    /\ success_steps = 5
    /\ Len(done) = 6
    /\ db.rides # None

\* all six steps succeeded and the user launched the dashboard
C28_WitnessLaunch ==
    /\ pc = "returned"
    /\ success_steps = total_steps
    /\ done[Len(done)].step = "launch_dashboard"

\* the rides rows the cleaning flagged in the column `flag`
Flagged(rows, flag) == SelectSeq(rows, LAMBDA r : r[flag] = 1)

\* the rides rows whose status is LIKE '%token%'
Matched(rows, token) == SelectSeq(rows, LAMBDA r : Like(r.Booking_Status, token))

\* C29: the cancellation queries agree with the derived flags: on a rides
\* table that carries the flags, the rows matched by
\* Booking_Status LIKE '%Customer%' are the rows with Is_Customer_Cancel = 1
\* and the rows matched by LIKE '%Driver%' those with Is_Driver_Cancel = 1
\* (whatever the letter case of the status), so the reason counts that
\* get_cancellation_analysis returns add up to the flagged rows.
C29_CancellationQueriesAgreeWithFlags ==
    (/\ ret.op = "get_cancellation_analysis"
     /\ db.rides # None
     /\ \A i \in 1..Len(db.rides.rows) : "Is_Customer_Cancel" \in DOMAIN db.rides.rows[i]) =>
        LET rows == db.rides.rows
            customer == result.customer_reasons.rows
            driver == result.driver_reasons.rows
        IN  /\ Matched(rows, "Customer") = Flagged(rows, "Is_Customer_Cancel")
            /\ Matched(rows, "Driver") = Flagged(rows, "Is_Driver_Cancel")
            /\ SumInt([i \in 1..Len(customer) |-> customer[i].Count])
                  = Len(Flagged(rows, "Is_Customer_Cancel"))
            /\ SumInt([i \in 1..Len(driver) |-> driver[i].Count])
                  = Len(Flagged(rows, "Is_Driver_Cancel"))

\* the derived columns of the row are what its own Booking_Status,
\* Booking_Value and Ride_Distance give
DerivedFromFinal(row) ==
    /\ row.Is_Successful = Is_Successful(row)
    /\ row.Is_Customer_Cancel = str_contains(row, "Customer")
    /\ row.Is_Driver_Cancel = str_contains(row, "Driver")
    /\ row.Revenue_Per_KM = Revenue_Per_KM(row)

\* C30: clean_data derives the columns before it fills missing values and
\* removes rows, yet in the final table every row's derived columns equal
\* those obtained from the row's final (filled) Booking_Status, Booking_Value
\* and Ride_Distance.
C30_DerivedColumnsMatchFinalValues ==
    Cleaned => \A k \in 1..Len(clean_data.rows) : DerivedFromFinal(clean_data.rows[k])

\* a cancelled ride whose missing distance was filled with 0 after the
\* derivation, next to a successful ride with a revenue per km
C30_Witness ==
    /\ Cleaned
    /\ Len(clean_data.rows) = 2
    /\ \E k \in 1..2 :
          LET c == clean_data.rows[k]
          IN  /\ c.Booking_Status = Str("Cancelled by Customer")
              /\ AbsentText(InputOf(c).Ride_Distance)
              /\ c.Ride_Distance = Num(0)
              /\ IsNA(c.Revenue_Per_KM)
    /\ \E k \in 1..2 :
          LET c == clean_data.rows[k]
          IN  /\ c.Is_Successful = 1
              /\ c.Revenue_Per_KM = Num(10)

====
